---- MODULE Spec2Model ----
(***************************************************************************)
(* Session lifecycle and order reconciliation of the Angel One service     *)
(* (src/src/service/angel_one_service.py).                                 *)
(*                                                                         *)
(* The module-level _session dict is the only shared state.  Each caller   *)
(* runs one operation at a time (get_holdings, buy_delivery_trade,         *)
(* buy_delivery_trade_with_order_params); an operation is a sequence of    *)
(* provider calls, and the code between two provider calls is one action.  *)
(* A provider answer is a message in flight: the provider puts it in       *)
(* net[p], the handler of the awaiting caller consumes it.                 *)
(*                                                                         *)
(* Python values: None is the string "<None>", a missing dict key is       *)
(* "<absent>"; a token is the serial number of the login that issued it    *)
(* (0 is None); a time is a number of seconds since midnight of day 0 in   *)
(* the exchange's timezone (IST has no daylight saving, so wall-clock      *)
(* arithmetic is plain integer arithmetic); a message is a sequence of     *)
(* text fragments, standing for their concatenation.                       *)
(***************************************************************************)
EXTENDS Integers, Sequences, FiniteSets, TLC

(* ------------------------------ bounds -------------------------------- *)
\* generateSession calls the provider answers in one behaviour
MaxLogins == 2
\* longest list a provider answer carries (searchScrip data, orderBook data)
MaxList == 2

(* ------------------------- program constants -------------------------- *)
\* t.replace(hour=5, ...): SmartAPI tokens reset at 05:00 IST daily
ResetHour == 5
\* max_attempts: int = 5
max_attempts == 5

SecondsPerHour == 60 * 60
SecondsPerDay == 24 * SecondsPerHour

NoneS == "<None>"
Absent == "<absent>"
NoToken == 0
NoTime == -1

\* the callers of the service; SeqCallers is the single caller of Spec
AllCallers == {1, 2}
SeqCallers == {1}

\* credential identities (client code / trading api key of the secret)
Identities == {"A", "B"}

\* UserSecret(share_credentials_angel_one=AngelOneSettings()), the secret
\* get_angel_one_secrets builds: the class declares share_credentials_angel_one
\* and share_credentials_coinbase, and no attribute share_credentials
EnvSecret == "UserSecret"

\* secret.share_credentials can be read
HasShareCredentials(secret) == secret \in Identities

\* wall-clock instants the clock can show: one second before and exactly at
\* the 05:00 boundary of two consecutive days
SampleTimes ==
    { d * SecondsPerDay + ResetHour * SecondsPerHour + k : d \in {0, 1}, k \in {-1, 0} }

(* ------------------------------ messages ------------------------------ *)
\* MsgNone: the answer has no "message" key
MsgNone == << >>
MsgSuccess == <<"SUCCESS">>
MsgInvalidSession == <<"Invalid ", "Session">>
MsgRejected == <<"Insufficient funds">>
MsgInvalidTotp == <<"Invalid totp">>
MsgTimeout == <<"Read timed out">>

\* "Session" in str(resp.get("message", ""))
HasSessionMarker(message) == \E i \in DOMAIN message : message[i] = "Session"

(* --------------------------- session validity ------------------------- *)
\* five_am_today = t.replace(hour=5, minute=0, second=0, microsecond=0)
five_am_today(t) == (t \div SecondsPerDay) * SecondsPerDay + ResetHour * SecondsPerHour

next_reset_after_rounded_up(t) == five_am_today(t) + SecondsPerDay

next_reset_after(t) ==
    IF t < five_am_today(t) THEN five_am_today(t) ELSE five_am_today(t) + SecondsPerDay

session_valid_ignores_clock(s, t) ==
    IF s.access_token = NoToken \/ s.login_time = NoTime THEN FALSE ELSE TRUE

\* _session_valid() evaluated on the cache s when the clock shows t
session_valid(s, t) ==
    IF s.access_token = NoToken \/ s.login_time = NoTime
    THEN FALSE
    ELSE t < next_reset_after(s.login_time)

(* ----------------------- session-expiry signal ------------------------ *)
is_session_expired_or_failed(resp) ==
    /\ resp.kind = "dict"
    /\ \/ resp.code \in {"int:401", "str:AG8001"}
       \/ HasSessionMarker(resp.message)
       \/ resp.status = "False"

is_session_expired_by_code_only(resp) ==
    /\ resp.kind = "dict"
    /\ resp.code \in {"int:401", "str:AG8001"}

is_session_expired_unless_success(resp) ==
    /\ resp.kind = "dict"
    /\ resp.status # "True"
    /\ \/ resp.code \in {"int:401", "str:AG8001"}
       \/ HasSessionMarker(resp.message)

\* isinstance(resp, dict) and (resp.get("code") in (401, "AG8001")
\*                             or "Session" in str(resp.get("message", "")))
is_session_expired(resp) ==
    /\ resp.kind = "dict"
    /\ \/ resp.code \in {"int:401", "str:AG8001"}
       \/ HasSessionMarker(resp.message)

(* ------------------------------- state -------------------------------- *)
VARIABLES
    session,    \* _session: [access_token, login_time]
    now,        \* dt.datetime.now(IST)
    issued,     \* provider side: issued[n] is the identity login n authenticated
    call,       \* call[p]: the frame of caller p's running operation
    net,        \* net[p]: the provider answer caller p has not yet consumed
    uuids,      \* the values the uuid.uuid4() calls made so far have returned
    built       \* history: the payloads execute_crypto_trade has built

vars == <<session, now, issued, call, net, uuids, built>>

Pending == [kind |-> "pending"]
NoneResp == [kind |-> "none"]
Raised(message) == [kind |-> "raise", message |-> message]
Dict(status, code, message, error, data) ==
    [kind |-> "dict", status |-> status, code |-> code, message |-> message,
     error |-> error, data |-> data]

\* resp.get("message") as an f-string prints it: None when the key is missing
GetMessage(resp) == IF resp.message = MsgNone THEN <<NoneS>> ELSE resp.message
\* resp.get("message", default)
GetMessageOr(resp, default) == IF resp.message = MsgNone THEN default ELSE resp.message

NoError == [type |-> NoneS, text |-> MsgNone]
RuntimeError(text) == [type |-> "RuntimeError", text |-> text]
NoResult == [kind |-> "none"]
NoSmart == [api_key |-> NoneS, access_token |-> NoToken]

\* an order status payload: an order-book entry or the data of a detail answer
Item(kind, uniqueorderid, orderid, orderstatus) ==
    [kind |-> kind, uniqueorderid |-> uniqueorderid, orderid |-> orderid,
     orderstatus |-> orderstatus]
NoItem == Item("none", NoneS, NoneS, NoneS)

\* a trading symbol is its name followed by its series suffix ("TCS" "-EQ")
Sym(base, series) == [base |-> base, series |-> series]
NoSym == Sym(NoneS, "")
NoOrder ==
    [tradingsymbol |-> NoSym, symboltoken |-> NoneS, exchange |-> NoneS,
     ordertype |-> NoneS, price |-> NoneS, quantity |-> 0]
NoParams ==
    [tradingsymbol |-> NoSym, symboltoken |-> NoneS, exchange |-> NoneS,
     ordertype |-> NoneS, price |-> NoneS, quantity |-> 0]
NoQty == [numeric |-> FALSE, tenths |-> 0]

\* ctx.get_state("auth_headers"): the auth headers of the request context
AuthHeaders(user_id, scopes) == [kind |-> "auth_headers", user_id |-> user_id, scopes |-> scopes]
NoAuthHeaders == [kind |-> "none", user_id |-> NoneS, scopes |-> << >>]

\* The frame of a get_portfolio_holdings tool call: fn is the tool function
\* that runs, env the environment its settings are read from; secret_calls
\* and holdings_calls list the arguments of the secret lookups and of the
\* get_holdings calls it has made; result and err are its outcome.
NoTool ==
    [pc |-> "idle", fn |-> NoneS, env |-> NoneS, auth_headers |-> NoAuthHeaders,
     secret |-> NoneS, secret_calls |-> << >>, holdings_calls |-> << >>,
     result |-> NoResult, err |-> NoError]

\* The frame of an operation: its position (pc names the provider call it is
\* blocked in, or the code it is about to run), its arguments, its locals,
\* and its outcome (result, err).  depth is the number of recursive calls
\* made so far.  History kept for the properties: nLogin .. nSleep count the
\* provider calls and sleeps of the operation, placed lists what the provider
\* did with each placement request, session0 is the session cache as the
\* operation found it when it was called, cache0 tells whether the outermost
\* call found a valid cached session, tool is the frame of the tool function
\* that called the operation (NoTool when the service is called directly), rec_raised whether the reconciler raised,
\* expired holds the tokens whose requests were answered with an expiry signal
\* the operation retried on.
Idle ==
    [pc |-> "idle", op |-> NoneS, id |-> NoneS, depth |-> 0,
     share_name |-> NoneS, qty |-> NoQty, order |-> NoOrder,
     smart |-> NoSmart,
     tradingsymbol |-> NoSym, symboltoken |-> NoneS, orderparams |-> NoParams,
     order_resp |-> [orderid |-> NoneS, uniqueorderid |-> NoneS],
     attempt |-> 0, unique_order_id |-> NoneS, order_id |-> NoneS,
     order_status_details |-> NoItem, last_error_message |-> MsgNone,
     rec_raised |-> FALSE,
     result |-> NoResult, err |-> NoError,
     nLogin |-> 0, nSearch |-> 0, nPlace |-> 0, nHolding |-> 0,
     nDetail |-> 0, nBook |-> 0, nSleep |-> 0,
     placed |-> << >>, cache0 |-> FALSE, expired |-> {}, clock |-> NoTime,
     session0 |-> [access_token |-> NoToken, login_time |-> NoTime],
     tool |-> NoTool]

Init ==
    /\ session = [access_token |-> NoToken, login_time |-> NoTime]
    /\ now \in SampleTimes
    /\ issued = << >>
    /\ call = [p \in AllCallers |-> Idle]
    /\ net = [p \in AllCallers |-> Pending]
    /\ uuids = << >>
    /\ built = << >>

Set(p, frame) == call' = [call EXCEPT ![p] = frame]
Receive(p, resp) == net' = [net EXCEPT ![p] = resp]
Consume(p) == net' = [net EXCEPT ![p] = Pending]
Awaiting(p, pc) == call[p].pc = pc /\ net[p].kind = "pending"
Answered(p, pc) == call[p].pc = pc /\ net[p].kind # "pending"

\* `raise RuntimeError(...)` and any other exception leaving the operation
Raise(frame, error) == [frame EXCEPT !.pc = "raised", !.err = error]

(* ------------------------------- clock -------------------------------- *)
\* Time passes.  The clock is read by _session_valid and by the right-hand
\* side of the login_time assignment only, so it is advanced where one of
\* them is about to run, and while the reconciler sleeps.
Tick ==
    /\ \E p \in AllCallers : call[p].pc \in {"ensure", "datetime_now", "sleep"}
    /\ \E t \in SampleTimes : t > now /\ now' = t
    /\ UNCHANGED <<session, issued, call, net, uuids, built>>

(* ------------------------------ inputs -------------------------------- *)
\* Python truthiness of a string-like value: None and "" are falsy
Truthy(v) == v \notin {NoneS, Absent, ""}

\* str(s).strip()
Strip(s) == IF s = "   " THEN "" ELSE s

ShareNames == {"", "   ", "TCS"}

\* share_quantity_to_buy: a number given in tenths, or something float() rejects
Qty(numeric, tenths) == [numeric |-> numeric, tenths |-> tenths]
Quantities == {Qty(FALSE, 0), Qty(TRUE, -10), Qty(TRUE, 0), Qty(TRUE, 5), Qty(TRUE, 10)}

\* int(qty_float): truncation towards zero
IntOfTenths(tenths) == IF tenths >= 0 THEN tenths \div 10 ELSE -((-tenths) \div 10)

TCS_EQ == Sym("TCS", "-EQ")
TCS_BE == Sym("TCS", "-BE")
BlankSym == Sym("", "")
SpacesSym == Sym("   ", "")
SymTruthy(sym) == sym.base \notin {NoneS, ""} \/ sym.series # ""
\* str(tradingsymbol).strip()
SymStrip(sym) == IF sym = SpacesSym THEN BlankSym ELSE sym
\* not (not tradingsymbol or not str(tradingsymbol).strip())
SymNonBlank(sym) == SymTruthy(sym) /\ SymTruthy(SymStrip(sym))
\* str(tradingsymbol).endswith("-EQ")
EndsWithEQ(sym) == sym.series = "-EQ"

Order(tradingsymbol, symboltoken, exchange, ordertype, price, quantity) ==
    [tradingsymbol |-> tradingsymbol, symboltoken |-> symboltoken, exchange |-> exchange,
     ordertype |-> ordertype, price |-> price, quantity |-> quantity]

\* the orders buy_delivery_trade_with_order_params is called with.  The
\* function reads attributes only, so exchange and ordertype are whatever the
\* caller's object holds: a string ("NSE", "MARKET"), or the member
\* Exchange.NSE / OrderType.MARKET of the (plain) Enums the DTO declares,
\* which is what an object built by DeliveryTradeParams(...) holds and which
\* is not equal to any string.  In the same way quantity is whatever number
\* the object holds; it is given in tenths of a share, as
\* share_quantity_to_buy is.
Orders ==
    { Order(TCS_EQ, NoneS, "NSE", "MARKET", NoneS, 10),
      Order(TCS_EQ, "t9", "NSE", "MARKET", "100.0", 10),
      Order(TCS_EQ, NoneS, "Exchange.NSE", "OrderType.MARKET", "100.0", 10),
      Order(TCS_BE, NoneS, "NSE", "LIMIT", "100.0", 20),
      Order(TCS_EQ, "t9", "NSE", "LIMIT", NoneS, 10),
      Order(TCS_EQ, "", "NSE", "MARKET", NoneS, 10),
      Order(BlankSym, NoneS, "NSE", "MARKET", NoneS, 10),
      Order(SpacesSym, "t9", "NSE", "MARKET", NoneS, 10),
      Order(TCS_EQ, NoneS, "NSE", "MARKET", NoneS, 0),
      Order(TCS_EQ, "t9", "NSE", "MARKET", NoneS, 15) }

(* ----------------------- ensuring a session --------------------------- *)
\* The first provider request of an operation once `smart` is authenticated:
\* get_holdings calls holding(); buy_delivery_trade calls searchScrip;
\* buy_delivery_trade_with_order_params calls searchScrip only when the
\* order carries no symboltoken, and otherwise builds the payload and
\* calls placeOrderFullResponse.
BuildOrderParamsFromOrder(order, symboltoken) ==
    [tradingsymbol |-> order.tradingsymbol, symboltoken |-> symboltoken,
     exchange |-> order.exchange, ordertype |-> order.ordertype,
     price |-> IF order.ordertype = "MARKET" THEN NoneS ELSE order.price,
     quantity |-> IntOfTenths(order.quantity)]

AfterAuth_always_searches(frame) ==
    IF frame.op = "get_holdings"
    THEN [frame EXCEPT !.pc = "holding", !.nHolding = @ + 1]
    ELSE [frame EXCEPT !.pc = "searchScrip", !.nSearch = @ + 1]

AfterAuth(frame) ==
    CASE frame.op = "get_holdings" ->
            [frame EXCEPT !.pc = "holding", !.nHolding = @ + 1]
      [] frame.op = "buy_delivery_trade" ->
            [frame EXCEPT !.pc = "searchScrip", !.nSearch = @ + 1]
      [] frame.op = "buy_delivery_trade_with_order_params" ->
            IF ~Truthy(frame.order.symboltoken)
            THEN [frame EXCEPT !.pc = "searchScrip", !.nSearch = @ + 1]
            ELSE [frame EXCEPT !.pc = "placeOrder", !.nPlace = @ + 1,
                               !.symboltoken = frame.order.symboltoken,
                               !.orderparams =
                                   BuildOrderParamsFromOrder(frame.order,
                                                             frame.order.symboltoken)]

\* The operation has returned or raised: its frame is gone.
Return(p) ==
    /\ call[p].pc \in {"done", "raised"}
    /\ Set(p, Idle)
    /\ UNCHANGED <<session, now, issued, net, uuids, built>>

\* A caller that is not inside an operation starts one.
StartCall(p) ==
    /\ call[p].pc = "idle"
    /\ \E id \in Identities :
         \/ Set(p, [Idle EXCEPT !.pc = "ensure", !.op = "get_holdings", !.id = id,
                                 !.session0 = session])
         \/ \E name \in ShareNames, q \in Quantities :
                Set(p, [Idle EXCEPT !.pc = "validate", !.op = "buy_delivery_trade",
                                    !.id = id, !.session0 = session,
                                    !.share_name = name, !.qty = q])
         \/ \E o \in Orders :
                Set(p, [Idle EXCEPT !.pc = "validate",
                                    !.op = "buy_delivery_trade_with_order_params",
                                    !.id = id, !.session0 = session, !.order = o])
    /\ UNCHANGED <<session, now, issued, net, uuids, built>>

\* buy_delivery_trade lines 171-181, buy_delivery_trade_with_order_params
\* lines 303-306: the argument checks, run again by every recursive call.
\* The second operation compares int(order.quantity) with 1.
ValidationError(frame) ==
    IF frame.op = "buy_delivery_trade"
    THEN CASE ~Truthy(frame.share_name) \/ ~Truthy(Strip(frame.share_name)) ->
                <<"share_name must be a non-empty string">>
           [] OTHER ->
              CASE ~frame.qty.numeric -> <<"share_quantity_to_buy must be a number">>
                [] frame.qty.numeric /\ frame.qty.tenths <= 0 ->
                      <<"share_quantity_to_buy must be >= 1">>
                [] frame.qty.numeric /\ frame.qty.tenths > 0
                   /\ IntOfTenths(frame.qty.tenths) * 10 # frame.qty.tenths ->
                      <<"share_quantity_to_buy must be a whole number of shares">>
                [] OTHER -> MsgNone
    ELSE CASE ~SymNonBlank(frame.order.tradingsymbol) ->
                <<"tradingsymbol must be a non-empty string">>
           [] SymNonBlank(frame.order.tradingsymbol) /\ IntOfTenths(frame.order.quantity) < 1 ->
                <<"quantity must be a whole number >= 1">>
           [] OTHER -> MsgNone

Validate(p) ==
    /\ call[p].pc = "validate"
    /\ IF ValidationError(call[p]) # MsgNone
       THEN Set(p, Raise(call[p], RuntimeError(ValidationError(call[p]))))
       ELSE Set(p, [call[p] EXCEPT !.pc = "ensure"])
    /\ UNCHANGED <<session, now, issued, net, uuids, built>>

\* secret.share_credentials of a secret that has no such attribute
NoShareCredentials ==
    [type |-> "AttributeError",
     text |-> <<"'UserSecret' object has no attribute 'share_credentials'">>]

\* `if not _session_valid(): smart = SmartConnect(api_key); ...generateSession(...)`
\* The validity test reads _session and the clock; when it finds the session
\* valid, the token is read from _session again, later, to build the client
\* (Connect), and no lock is held in between.
Ensure(p) ==
    /\ call[p].pc = "ensure"
    /\ LET frame == [call[p] EXCEPT
                        !.cache0 = IF call[p].depth = 0
                                   THEN session_valid(session, now) ELSE @]
       IN IF session_valid(session, now)
          THEN Set(p, [frame EXCEPT !.pc = "connect"])
          ELSE IF ~HasShareCredentials(frame.id)
          THEN Set(p, Raise(frame, NoShareCredentials))
          ELSE Set(p, [frame EXCEPT
                          !.smart = [api_key |-> frame.id, access_token |-> NoToken],
                          !.pc = "generateSession", !.nLogin = @ + 1])
    /\ UNCHANGED <<session, now, issued, net, uuids, built>>

\* `else: smart = SmartConnect(api_key, access_token=_session["access_token"])`
\* and the first request made with that client: the token is whatever the
\* cache holds now
Connect(p) ==
    /\ call[p].pc = "connect"
    /\ IF ~HasShareCredentials(call[p].id)
       THEN Set(p, Raise(call[p], NoShareCredentials))
       ELSE Set(p, AfterAuth([call[p] EXCEPT
                       !.smart = [api_key |-> call[p].id,
                                  access_token |-> session.access_token]]))
    /\ UNCHANGED <<session, now, issued, net, uuids, built>>

\* the provider's answers to generateSession(client_code, pin, totp); the
\* data block of an answer is present or not, and holds a jwtToken or not
LoginData(present, has_jwtToken, jwtToken) ==
    [present |-> present, has_jwtToken |-> has_jwtToken, jwtToken |-> jwtToken]
LoginOk(token) ==
    Dict("True", Absent, MsgSuccess, Absent, LoginData(TRUE, TRUE, token))
LoginFailures ==
    { Dict("False", "str:AB1050", MsgInvalidTotp, Absent, LoginData(FALSE, FALSE, NoToken)),
      Dict("True", Absent, MsgSuccess, Absent, LoginData(FALSE, FALSE, NoToken)),
      Dict("True", Absent, MsgSuccess, Absent, LoginData(TRUE, FALSE, NoToken)),
      NoneResp }

ProviderLogin(p) ==
    /\ call[p].pc \in {"generateSession", "tool.generateSession"}
    /\ net[p].kind = "pending"
    /\ \/ /\ Len(issued) < MaxLogins
          /\ issued' = Append(issued, call[p].id)
          /\ Receive(p, LoginOk(Len(issued) + 1))
       \/ /\ \E resp \in LoginFailures : Receive(p, resp)
          /\ UNCHANGED issued
    /\ UNCHANGED <<session, now, call, uuids, built>>

HandleLogin_failure_clears_cache(p) ==
    /\ Answered(p, "generateSession")
    /\ Consume(p)
    /\ LET data == net[p] IN
       IF data.kind = "dict" /\ data.status = "True"
          /\ data.data.present /\ data.data.has_jwtToken
       THEN /\ session' = [session EXCEPT !.access_token = data.data.jwtToken]
            /\ Set(p, [call[p] EXCEPT !.pc = "datetime_now",
                                      !.smart.access_token = data.data.jwtToken])
       ELSE /\ session' = [access_token |-> NoToken, login_time |-> NoTime]
            /\ Set(p, Raise(call[p], RuntimeError(<<"login failed: ">>)))
    /\ UNCHANGED <<now, issued, uuids, built>>

\* lines 192-195: the login answer is checked and the token is cached
HandleLogin(p) ==
    /\ Answered(p, "generateSession")
    /\ Consume(p)
    /\ LET data == net[p] IN
       IF data.kind # "dict" \/ data.status # "True"
       THEN /\ Set(p, Raise(call[p], RuntimeError(
                    <<"login failed: ">> \o
                    (IF data.kind = "dict" THEN GetMessage(data) ELSE <<NoneS>>))))
            /\ UNCHANGED session
       ELSE IF ~data.data.present
       THEN /\ Set(p, Raise(call[p], [type |-> "KeyError", text |-> <<"data">>]))
            /\ UNCHANGED session
       ELSE IF ~data.data.has_jwtToken
       THEN /\ Set(p, Raise(call[p], [type |-> "KeyError", text |-> <<"jwtToken">>]))
            /\ UNCHANGED session
       ELSE /\ session' = [session EXCEPT !.access_token = data.data.jwtToken]
            /\ Set(p, [call[p] EXCEPT !.pc = "datetime_now",
                                      !.smart.access_token = data.data.jwtToken])
    /\ UNCHANGED <<now, issued, uuids, built>>

\* line 196, right-hand side: dt.datetime.now(IST) is evaluated.  No lock is
\* held, so other callers can run between the read and the store.
datetime_now(p) ==
    /\ call[p].pc = "datetime_now"
    /\ Set(p, [call[p] EXCEPT !.pc = "login_time", !.clock = now])
    /\ UNCHANGED <<session, now, issued, net, uuids, built>>

LoginTime_keeps_acquisition_time(p) ==
    /\ call[p].pc = "login_time"
    /\ session' = [session EXCEPT !.login_time =
                                      IF @ = NoTime THEN call[p].clock ELSE @]
    /\ Set(p, AfterAuth([call[p] EXCEPT !.clock = NoTime]))
    /\ UNCHANGED <<now, issued, net, uuids, built>>

\* line 196, the store: _session["login_time"] = <the value read>
LoginTime(p) ==
    /\ call[p].pc = "login_time"
    /\ session' = [session EXCEPT !.login_time = call[p].clock]
    /\ Set(p, AfterAuth([call[p] EXCEPT !.clock = NoTime]))
    /\ UNCHANGED <<now, issued, net, uuids, built>>

invalidate_nothing(s) == s

invalidate_both(s) == [access_token |-> NoToken, login_time |-> NoTime]

\* `_session["access_token"] = None`
invalidate(s) == [s EXCEPT !.access_token = NoToken]

Recurse_resumes_at_request(frame) ==
    [frame EXCEPT !.pc = IF frame.op = "get_holdings" THEN "holding" ELSE "searchScrip",
                  !.depth = @ + 1,
                  !.expired = @ \cup {frame.smart.access_token}]

\* `return <operation>(...)`: the operation calls itself, and its result is
\* the result of the inner call.
Recurse(frame) ==
    [frame EXCEPT !.pc = IF frame.op = "get_holdings" THEN "ensure" ELSE "validate",
                  !.depth = @ + 1,
                  !.expired = @ \cup {frame.smart.access_token}]

(* ----------------------------- get_holdings --------------------------- *)
ExpiryAnswers(nodata) ==
    { Dict("False", "int:401", MsgNone, Absent, nodata),
      Dict("False", "str:AG8001", MsgInvalidSession, Absent, nodata),
      Dict("False", Absent, MsgInvalidSession, Absent, nodata) }

HoldingAnswers ==
    { Dict("True", Absent, MsgSuccess, Absent, "holdings"),
      Dict("False", "str:AB1010", MsgRejected, Absent, Absent),
      NoneResp } \cup ExpiryAnswers(Absent)

ProviderHolding(p) ==
    /\ call[p].pc \in {"holding", "tool.holding"}
    /\ net[p].kind = "pending"
    /\ \E resp \in HoldingAnswers : Receive(p, resp)
    /\ UNCHANGED <<session, now, issued, call, uuids, built>>

\* lines 57-69
HandleHolding(p) ==
    /\ Answered(p, "holding")
    /\ Consume(p)
    /\ LET resp == net[p] IN
       IF is_session_expired(resp)
       THEN /\ session' = invalidate(session)
            /\ Set(p, Recurse(call[p]))
       ELSE /\ UNCHANGED session
            /\ IF resp.kind = "dict" /\ resp.status = "False"
               THEN Set(p, Raise(call[p],
                               RuntimeError(<<"holding() failed: ">> \o
                                            GetMessageOr(resp, <<"Unknown error">>))))
               ELSE Set(p, [call[p] EXCEPT !.pc = "done",
                                           !.result = [kind |-> "holdings", resp |-> resp]])
    /\ UNCHANGED <<now, issued, uuids, built>>

(* --------------------------- symbol resolution ------------------------ *)
Scrip(exchange, tradingsymbol, symboltoken) ==
    [exchange |-> exchange, tradingsymbol |-> tradingsymbol, symboltoken |-> symboltoken]

Scrips ==
    { Scrip("NSE", TCS_EQ, "t1"), Scrip("NSE", TCS_BE, "t2"),
      Scrip("BSE", TCS_EQ, "t3"), Scrip("NSE", TCS_EQ, "") }

\* the lists of at most n elements of S
ListsUpTo(S, n) == UNION { [1..k -> S] : k \in 0..n }

SearchAnswers ==
    { Dict("True", Absent, MsgSuccess, Absent, results) :
          results \in ListsUpTo(Scrips, MaxList) }
    \cup { Dict("False", "str:AB1010", MsgRejected, Absent, << >>), NoneResp }
    \cup ExpiryAnswers(<< >>)

\* `for item in results: if <preferred>: chosen = item; break` and then
\* `if chosen is None: chosen = results[0]`: the first element whose flag is
\* set, else the first element
first_preferred(results, preferred) ==
    IF \E i \in DOMAIN results : preferred[i]
    THEN results[CHOOSE i \in DOMAIN results :
                    preferred[i] /\ \A j \in DOMAIN results : preferred[j] => i <= j]
    ELSE results[1]

choose_first_result(results, exchange) == results[1]

\* buy_delivery_trade lines 224-236: prefer NSE equity symbols ending with -EQ
choose_equity(results, exchange) ==
    first_preferred(results,
        [i \in DOMAIN results |->
            results[i].exchange = exchange /\ EndsWithEQ(results[i].tradingsymbol)])

\* buy_delivery_trade_with_order_params lines 353-365: prefer the exact symbol
choose_exact(results, exchange, tradingsymbol) ==
    first_preferred(results,
        [i \in DOMAIN results |->
            results[i].exchange = exchange /\ results[i].tradingsymbol = tradingsymbol])

ProviderSearch(p) ==
    /\ Awaiting(p, "searchScrip")
    /\ \E resp \in SearchAnswers : Receive(p, resp)
    /\ UNCHANGED <<session, now, issued, call, uuids, built>>

\* buy_delivery_trade lines 206-259 / buy_delivery_trade_with_order_params
\* lines 332-384: the search answer is classified, a scrip is chosen and the
\* order payload is built, up to the placeOrderFullResponse request.
Resolve(frame, results) ==
    IF frame.op = "buy_delivery_trade"
    THEN LET chosen == choose_equity(results, "NSE") IN
         IF ~SymTruthy(chosen.tradingsymbol) \/ ~Truthy(chosen.symboltoken)
         THEN Raise(frame, RuntimeError(<<"searchScrip() returned invalid symbol data">>))
         ELSE [frame EXCEPT
                  !.pc = "placeOrder", !.nPlace = @ + 1,
                  !.tradingsymbol = chosen.tradingsymbol,
                  !.symboltoken = chosen.symboltoken,
                  !.orderparams =
                      [tradingsymbol |-> chosen.tradingsymbol,
                       symboltoken |-> chosen.symboltoken,
                       exchange |-> "NSE", ordertype |-> "MARKET", price |-> NoneS,
                       quantity |-> IntOfTenths(frame.qty.tenths)]]
    ELSE LET chosen == choose_exact(results, frame.order.exchange,
                                    frame.order.tradingsymbol) IN
         IF ~Truthy(chosen.symboltoken)
         THEN Raise(frame, RuntimeError(<<"searchScrip() returned invalid symbol data">>))
         ELSE [frame EXCEPT
                  !.pc = "placeOrder", !.nPlace = @ + 1,
                  !.tradingsymbol = frame.order.tradingsymbol,
                  !.symboltoken = chosen.symboltoken,
                  !.orderparams =
                      BuildOrderParamsFromOrder(frame.order, chosen.symboltoken)]

search_failure_ignores_status(op, search_resp) ==
    IF search_resp.kind # "dict"
    THEN <<"searchScrip() failed: ", "Unknown error">>
    ELSE IF search_resp.data = << >>
    THEN IF op = "buy_delivery_trade"
         THEN <<"No matching scrip found for the provided share_name">>
         ELSE <<"No matching scrip found to resolve symboltoken for the provided ",
                "tradingsymbol">>
    ELSE MsgNone

\* lines 213-222 / 339-351: the text of the RuntimeError a search answer that
\* is not a session-expiry signal is refused with (MsgNone: it is not refused)
search_failure(op, search_resp) ==
    IF search_resp.kind # "dict"
    THEN <<"searchScrip() failed: ", "Unknown error">>
    ELSE IF search_resp.status # "True"
    THEN <<"searchScrip() failed: ">> \o GetMessage(search_resp)
    ELSE IF search_resp.data = << >>
    THEN IF op = "buy_delivery_trade"
         THEN <<"No matching scrip found for the provided share_name">>
         ELSE <<"No matching scrip found to resolve symboltoken for the provided ",
                "tradingsymbol">>
    ELSE MsgNone

HandleSearch(p) ==
    /\ Answered(p, "searchScrip")
    /\ Consume(p)
    /\ LET search_resp == net[p] IN
       IF is_session_expired(search_resp)
       THEN /\ session' = invalidate(session)
            /\ Set(p, Recurse(call[p]))
       ELSE /\ UNCHANGED session
            /\ IF search_failure(call[p].op, search_resp) # MsgNone
               THEN Set(p, Raise(call[p], RuntimeError(
                           search_failure(call[p].op, search_resp))))
               ELSE Set(p, Resolve(call[p], search_resp.data))
    /\ UNCHANGED <<now, issued, uuids, built>>

(* ---------------------------- order placement ------------------------- *)
PlaceData(present, orderid, uniqueorderid) ==
    [present |-> present, orderid |-> orderid, uniqueorderid |-> uniqueorderid]
NoPlaceData == PlaceData(FALSE, NoneS, NoneS)

\* the provider's answers to placeOrderFullResponse, by what the provider did;
\* an answer can carry an expiry code together with a success flag and ids
PlaceAnswers(intent) ==
    CASE intent = "accept" ->
            { Dict("True", Absent, MsgSuccess, Absent, PlaceData(TRUE, "s:101", "U1")),
              Dict("True", Absent, MsgSuccess, Absent, PlaceData(TRUE, "s:101", NoneS)),
              Dict("True", Absent, MsgSuccess, Absent, NoPlaceData) }
      [] intent = "reject" ->
            { Dict("False", "str:AB1010", MsgRejected, Absent, NoPlaceData),
              Dict(Absent, Absent, MsgRejected, "AB1010", NoPlaceData) }
      [] intent = "expire" ->
            ExpiryAnswers(NoPlaceData)
            \cup { Dict("True", "int:401", MsgSuccess, Absent,
                        PlaceData(TRUE, "s:102", "U2")) }
      [] intent = "none" -> { NoneResp }
PlaceIntents == {"accept", "reject", "expire", "none"}

\* the provider answers the placement; call[p].placed is the history of what
\* it did with this operation's placement requests
ProviderPlace(p) ==
    /\ Awaiting(p, "placeOrder")
    /\ \E intent \in PlaceIntents :
         \E resp \in PlaceAnswers(intent) :
            /\ Receive(p, resp)
            /\ Set(p, [call[p] EXCEPT !.placed =
                          Append(@, [intent |-> intent,
                                     orderid |-> IF resp.kind = "dict"
                                                 THEN resp.data.orderid ELSE NoneS])])
    /\ UNCHANGED <<session, now, issued, uuids, built>>

\* str(): an order id is a string ("s:...") or an integer ("i:...")
PyStr(v) ==
    CASE v = "s:101" -> "101"
      [] v = "i:101" -> "101"
      [] v = "s:102" -> "102"
      [] v = NoneS -> "None"
      [] OTHER -> v

NextAttempt_book_first(frame) == [frame EXCEPT !.pc = "orderBook", !.nBook = @ + 1]

\* the request that opens one attempt of the reconciliation loop (lines 96-118)
NextAttempt(frame) ==
    IF Truthy(frame.unique_order_id)
    THEN [frame EXCEPT !.pc = "orderDetails", !.nDetail = @ + 1]
    ELSE [frame EXCEPT !.pc = "orderBook", !.nBook = @ + 1]

\* lines 284-291: final_order_resp
final_order_resp(order_resp, order_status, order_status_details) ==
    [kind |-> "order", order_id |-> order_resp.orderid,
     order_status |-> order_status, order_status_details |-> order_status_details]

\* lines 142-151 and the caller's lines 276-291: the reconciler returns
\* (order_status, order_status_details) and the operation returns the record
RecReturn(frame) ==
    LET order_status == IF frame.order_status_details.kind = "dict"
                        THEN frame.order_status_details.orderstatus
                        ELSE NoneS
    IN [frame EXCEPT !.pc = "done",
                     !.result = final_order_resp(frame.order_resp, order_status,
                                                 frame.order_status_details)]

RecRaise_propagates(frame) ==
    Raise(frame, [type |-> "TypeError", text |-> <<"object is not iterable">>])

\* an exception leaves the reconciler: `except Exception` in the caller
RecRaise(frame) ==
    [frame EXCEPT !.pc = "done", !.rec_raised = TRUE,
                  !.result = final_order_resp(frame.order_resp, NoneS, NoItem)]

\* lines 84-96: _retrieve_order_status_from_smartapi(smart, order_resp) is
\* entered with the accepted placement answer, reads the two ids and makes
\* the first request of its loop.  The operation's arguments, the chosen
\* scrip and the payload are not read again from here on (no recursive call
\* follows an accepted placement), so the frame drops them.
EnterReconcile(frame, data_block) ==
    NextAttempt([frame EXCEPT
        !.order_resp = [orderid |-> data_block.orderid,
                        uniqueorderid |-> data_block.uniqueorderid],
        !.unique_order_id = data_block.uniqueorderid,
        !.order_id = data_block.orderid,
        !.attempt = 0,
        !.share_name = NoneS, !.qty = NoQty, !.order = NoOrder,
        !.tradingsymbol = NoSym, !.symboltoken = NoneS, !.orderparams = NoParams])

is_rejection_status_only(order_resp) == order_resp.status = "False"

\* `order_resp.get("status") is False or order_resp.get("error") is not None`
is_rejection(order_resp) == order_resp.status = "False" \/ order_resp.error # Absent

\* lines 261-272 / 386-397: the placement answer is classified
HandlePlace(p) ==
    /\ Answered(p, "placeOrder")
    /\ Consume(p)
    /\ LET order_resp == net[p] IN
       IF is_session_expired(order_resp)
       THEN /\ session' = invalidate(session)
            /\ Set(p, Recurse(call[p]))
       ELSE /\ UNCHANGED session
            /\ IF order_resp.kind # "dict"
               THEN Set(p, Raise(call[p], [type |-> "AttributeError", text |-> <<"get">>]))
               ELSE IF is_rejection(order_resp)
               THEN Set(p, Raise(call[p], RuntimeError(
                           <<"buy_delivery_trade failed: ">> \o GetMessage(order_resp))))
               ELSE Set(p, EnterReconcile(call[p], order_resp.data))
    /\ UNCHANGED <<now, issued, uuids, built>>

(* -------------------------- order reconciliation ---------------------- *)
\* the provider's answers to individual_order_details(unique_order_id)
DetailAnswers ==
    { Raised(MsgTimeout),
      NoneResp,
      Dict("False", "str:AG8001", MsgInvalidSession, Absent, NoItem),
      Dict("True", Absent, MsgSuccess, Absent, Item("dict", "U1", "s:101", "complete")),
      Dict(Absent, Absent, MsgNone, Absent, Item("dict", "U1", "s:101", "open")),
      Dict("True", Absent, MsgSuccess, Absent, Item("dict", "U1", "s:101", NoneS)),
      Dict("True", Absent, MsgSuccess, Absent, Item("list", NoneS, NoneS, NoneS)) }

\* order-book entries: the placed order, an entry that shares only its order
\* id (as an integer), another order, and an entry that is not a dict
BookItems ==
    { Item("dict", "U1", "s:101", "complete"),
      Item("dict", "U2", "i:101", "open"),
      Item("dict", "U2", "s:102", "rejected"),
      Item("str", NoneS, NoneS, NoneS) }

BookData(kind, items) == [kind |-> kind, items |-> items]

\* the provider's answers to orderBook()
BookAnswers ==
    { Dict("True", Absent, MsgSuccess, Absent, BookData("list", orders)) :
          orders \in ListsUpTo(BookItems, MaxList) }
    \cup { Dict("True", Absent, MsgSuccess, Absent, BookData("int", << >>)),
           Dict("False", "str:AG8001", MsgInvalidSession, Absent, BookData("none", << >>)),
           Raised(MsgTimeout),
           NoneResp }

\* the answers the provider gives while a whole operation is explored: one of
\* each kind the callers of the reconciler tell apart
DetailAnswersBrief ==
    { Raised(MsgTimeout),
      Dict("False", "str:AG8001", MsgInvalidSession, Absent, NoItem),
      Dict("True", Absent, MsgSuccess, Absent, Item("dict", "U1", "s:101", "complete")) }
BookAnswersBrief ==
    { Dict("True", Absent, MsgSuccess, Absent,
           BookData("list", <<Item("dict", "U1", "s:101", "complete")>>)),
      Dict("True", Absent, MsgSuccess, Absent, BookData("list", << >>)),
      Dict("True", Absent, MsgSuccess, Absent, BookData("int", << >>)),
      Raised(MsgTimeout) }

\* lines 127-133: the test applied to one order-book entry; an entry that is
\* not a dict raises inside the try and is skipped
item_matches(item, unique_order_id, order_id) ==
    /\ item.kind = "dict"
    /\ \/ Truthy(unique_order_id) /\ item.uniqueorderid = unique_order_id
       \/ Truthy(order_id) /\ PyStr(item.orderid) = PyStr(order_id)

\* lines 124-135: the first matching entry of the listing, or NoItem
scan_order_book(orders, unique_order_id, order_id) ==
    IF \E i \in DOMAIN orders : item_matches(orders[i], unique_order_id, order_id)
    THEN orders[CHOOSE i \in DOMAIN orders :
                   /\ item_matches(orders[i], unique_order_id, order_id)
                   /\ \A j \in DOMAIN orders :
                          item_matches(orders[j], unique_order_id, order_id) => i <= j]
    ELSE NoItem

ProviderDetail(p, answers) ==
    /\ Awaiting(p, "orderDetails")
    /\ \E resp \in answers : Receive(p, resp)
    /\ UNCHANGED <<session, now, issued, call, uuids, built>>

\* `or`: the message when it is truthy, else the previous last error
MessageOr(message, other) == IF message # MsgNone THEN message ELSE other

\* lines 98-118: the detail answer either ends the loop or leads to orderBook()
HandleDetail(p) ==
    /\ Answered(p, "orderDetails")
    /\ Consume(p)
    /\ LET details_resp == net[p]
           toBook(frame) == [frame EXCEPT !.pc = "orderBook", !.nBook = @ + 1]
       IN CASE details_resp.kind = "raise" ->
                  Set(p, toBook([call[p] EXCEPT
                                    !.last_error_message = details_resp.message]))
            [] details_resp.kind = "dict" ->
                  IF details_resp.data.kind # "none"
                  THEN Set(p, RecReturn([call[p] EXCEPT
                                    !.order_status_details = details_resp.data]))
                  ELSE Set(p, toBook([call[p] EXCEPT
                                    !.last_error_message =
                                        MessageOr(details_resp.message, @)]))
            [] OTHER -> Set(p, toBook(call[p]))
    /\ UNCHANGED <<session, now, issued, uuids, built>>

ProviderBook(p, answers) ==
    /\ Awaiting(p, "orderBook")
    /\ \E resp \in answers : Receive(p, resp)
    /\ UNCHANGED <<session, now, issued, call, uuids, built>>

sleep_and_continue_without_sleep(frame) ==
    LET next == [frame EXCEPT !.attempt = @ + 1]
    IN IF next.attempt < max_attempts THEN NextAttempt(next) ELSE RecReturn(next)

sleep_and_continue_raise_when_exhausted(frame) ==
    LET slept == [frame EXCEPT !.attempt = @ + 1, !.nSleep = @ + 1]
    IN IF slept.attempt < max_attempts THEN NextAttempt(slept) ELSE RecRaise(slept)

sleep_and_continue_one_more_attempt(frame) ==
    LET slept == [frame EXCEPT !.attempt = @ + 1, !.nSleep = @ + 1]
    IN IF slept.attempt <= max_attempts THEN NextAttempt(slept) ELSE RecReturn(slept)

sleep_and_continue_no_final_sleep(frame) ==
    LET next == [frame EXCEPT !.attempt = @ + 1]
    IN IF next.attempt < max_attempts
       THEN NextAttempt([next EXCEPT !.nSleep = @ + 1])
       ELSE RecReturn(next)

\* line 140 and the loop header: time.sleep(sleep_seconds) has returned; then
\* the next attempt, or the end of the loop after max_attempts attempts
sleep_and_continue(frame) ==
    LET slept == [frame EXCEPT !.attempt = @ + 1, !.nSleep = @ + 1]
    IN IF slept.attempt < max_attempts THEN NextAttempt(slept) ELSE RecReturn(slept)

\* the attempt found no match: the reconciler is about to sleep
to_sleep(frame) == [frame EXCEPT !.pc = "sleep"]

\* line 140: time.sleep(sleep_seconds); the call waits, the clock and any
\* other call go on
Sleep(p) ==
    /\ call[p].pc = "sleep"
    /\ Set(p, sleep_and_continue(call[p]))
    /\ UNCHANGED <<session, now, issued, net, uuids, built>>

\* lines 117-139: the listing is scanned; a match ends the loop
HandleBook(p) ==
    /\ Answered(p, "orderBook")
    /\ Consume(p)
    /\ LET ob_resp == net[p] IN
       CASE ob_resp.kind = "raise" ->
               Set(p, to_sleep([call[p] EXCEPT
                                   !.last_error_message = ob_resp.message]))
         [] ob_resp.kind = "dict" /\ ob_resp.status = "True" ->
               IF ob_resp.data.kind = "int"
               THEN Set(p, RecRaise(call[p]))
               ELSE LET match == scan_order_book(ob_resp.data.items,
                                                 call[p].unique_order_id,
                                                 call[p].order_id)
                    IN IF match # NoItem
                       THEN Set(p, RecReturn([call[p] EXCEPT
                                                 !.order_status_details = match]))
                       ELSE Set(p, to_sleep(call[p]))
         [] OTHER -> Set(p, to_sleep(call[p]))
    /\ UNCHANGED <<session, now, issued, uuids, built>>

(* --------------------------- specification ---------------------------- *)
Step(p) ==
    \/ StartCall(p)
    \/ Return(p)
    \/ Validate(p)
    \/ Ensure(p)
    \/ Connect(p)
    \/ ProviderLogin(p)
    \/ HandleLogin(p)
    \/ datetime_now(p)
    \/ LoginTime(p)
    \/ ProviderHolding(p)
    \/ HandleHolding(p)
    \/ ProviderSearch(p)
    \/ HandleSearch(p)
    \/ ProviderPlace(p)
    \/ HandlePlace(p)
    \/ ProviderDetail(p, DetailAnswersBrief)
    \/ HandleDetail(p)
    \/ ProviderBook(p, BookAnswersBrief)
    \/ HandleBook(p)
    \/ Sleep(p)

\* one caller issuing one operation after the other
Next == Tick \/ \E p \in SeqCallers : Step(p)

Spec == Init /\ [][Next]_vars

\* The reconciler alone: _retrieve_order_status_from_smartapi is entered with
\* each accepted placement answer, and the provider answers its two calls
\* with everything in DetailAnswers and BookAnswers.
InitRec ==
    /\ session = [access_token |-> 1, login_time |-> CHOOSE t \in SampleTimes : TRUE]
    /\ now = session.login_time
    /\ issued = <<"A">>
    /\ net = [p \in AllCallers |-> Pending]
    /\ uuids = << >>
    /\ built = << >>
    /\ \E resp \in PlaceAnswers("accept") :
         call = [p \in AllCallers |->
                   IF p \in SeqCallers
                   THEN EnterReconcile(
                            [Idle EXCEPT !.op = "buy_delivery_trade", !.id = "A",
                                         !.smart = [api_key |-> "A", access_token |-> 1],
                                         !.nLogin = 1, !.nSearch = 1, !.nPlace = 1,
                                         !.placed = <<[intent |-> "accept",
                                                        orderid |-> resp.data.orderid]>>],
                            resp.data)
                   ELSE Idle]

NextRec ==
    \E p \in SeqCallers :
       \/ ProviderDetail(p, DetailAnswers)
       \/ HandleDetail(p)
       \/ ProviderBook(p, BookAnswers)
       \/ HandleBook(p)
       \/ Sleep(p)

SpecRec == InitRec /\ [][NextRec]_vars

\* The reconciler makes blocking calls: each provider call returns or raises,
\* time.sleep returns, and the code after it runs, so a step that is possible
\* is eventually taken.
SpecRecLive == SpecRec /\ WF_vars(NextRec)

\* Two calls of get_holdings running concurrently for one identity against
\* the shared _session: the module has no lock, so the steps of the two calls
\* interleave at every provider call and at every read or write of _session.
InitConc ==
    /\ session = [access_token |-> NoToken, login_time |-> NoTime]
    /\ now \in SampleTimes
    /\ issued = << >>
    /\ call = [p \in AllCallers |->
                 [Idle EXCEPT !.pc = "ensure", !.op = "get_holdings", !.id = "A"]]
    /\ net = [p \in AllCallers |-> Pending]
    /\ uuids = << >>
    /\ built = << >>

NextConc ==
    \/ Tick
    \/ \E p \in AllCallers :
          \/ Ensure(p)
          \/ Connect(p)
          \/ ProviderLogin(p)
          \/ HandleLogin(p)
          \/ datetime_now(p)
          \/ LoginTime(p)
          \/ ProviderHolding(p)
          \/ HandleHolding(p)

SpecConc == InitConc /\ [][NextConc]_vars

(* ------------------------- crypto order request ----------------------- *)
\* Optional[Decimal]: None, or a number (counted in the smallest unit used).
\* The fields are not validated on assignment, so that one can also hold the
\* float the tool assigns to it.
NoneDec == [none |-> TRUE, value |-> 0, float |-> FALSE]
Dec(value) == [none |-> FALSE, value |-> value, float |-> FALSE]
Float(value) == [none |-> FALSE, value |-> value, float |-> TRUE]
\* Field(gt=Decimal("0")) on an optional field: None passes, a number must be > 0
OptionalGtZero(d) == d.none \/ d.value > 0
\* Field(gt=Decimal("0")) on a required field
RequiredGtZero(d) == ~d.none /\ d.value > 0

\* a configuration block that is not populated (None)
NoBlock == [kind |-> "none"]
MarketIOC(base_size, quote_size) ==
    [kind |-> "market_ioc", base_size |-> base_size, quote_size |-> quote_size]
LimitGTC(base_size, limit_price, post_only) ==
    [kind |-> "limit_gtc", base_size |-> base_size, limit_price |-> limit_price,
     post_only |-> post_only]
\* end_time: a wall-clock reading and its zone ("naive" when it has none)
EndTime(wall, tz) == [wall |-> wall, tz |-> tz]
LimitGTD(base_size, limit_price, end_time, post_only) ==
    [kind |-> "limit_gtd", base_size |-> base_size, limit_price |-> limit_price,
     end_time |-> end_time, post_only |-> post_only]

\* number of fields of a list of flags that are set: sum(provided)
CountTrue(provided) == Cardinality({ i \in DOMAIN provided : provided[i] })

validate_exactly_one_size_at_least_one(cfg) ==
    CountTrue(<<~cfg.base_size.none, ~cfg.quote_size.none>>) >= 1

\* MarketIOCConfig.validate_exactly_one_size: sum(provided) != 1 raises
validate_exactly_one_size(cfg) ==
    CountTrue(<<~cfg.base_size.none, ~cfg.quote_size.none>>) = 1

\* MarketIOCConfig(...): the field constraints, then the model validator
MarketIOCValid(cfg) ==
    /\ OptionalGtZero(cfg.base_size)
    /\ OptionalGtZero(cfg.quote_size)
    /\ validate_exactly_one_size(cfg)

\* LimitGTCConfig(...) and LimitGTDConfig(...): the field constraints
LimitValid(cfg) == RequiredGtZero(cfg.base_size) /\ RequiredGtZero(cfg.limit_price)

UtcOffset(tz) == IF tz = "IST" THEN 19800 ELSE 0

\* LimitGTDConfig.coerce_timezone: a naive end_time is taken as UTC, an aware
\* one is converted to UTC
coerce_timezone(cfg) ==
    [cfg EXCEPT !.end_time = EndTime(cfg.end_time.wall - UtcOffset(cfg.end_time.tz), "UTC")]

OrderConfiguration(market_market_ioc, limit_limit_gtc, limit_limit_gtd) ==
    [market_market_ioc |-> market_market_ioc, limit_limit_gtc |-> limit_limit_gtc,
     limit_limit_gtd |-> limit_limit_gtd]

validate_one_of_at_least_one(oc) ==
    CountTrue(<<oc.market_market_ioc # NoBlock, oc.limit_limit_gtc # NoBlock,
                oc.limit_limit_gtd # NoBlock>>) >= 1

\* OrderConfiguration.validate_one_of: sum(provided) != 1 raises
validate_one_of(oc) ==
    CountTrue(<<oc.market_market_ioc # NoBlock, oc.limit_limit_gtc # NoBlock,
                oc.limit_limit_gtd # NoBlock>>) = 1

\* OrderConfiguration(...): every populated block is validated as its own
\* model, then the model validator runs
OrderConfigurationValid(oc) ==
    /\ oc.market_market_ioc # NoBlock => MarketIOCValid(oc.market_market_ioc)
    /\ oc.limit_limit_gtc # NoBlock => LimitValid(oc.limit_limit_gtc)
    /\ oc.limit_limit_gtd # NoBlock => LimitValid(oc.limit_limit_gtd)
    /\ validate_one_of(oc)

\* Optional[str] client_order_id: None, or a text (a sequence of fragments)
NoKey == [given |-> FALSE, text |-> << >>]
Key(text) == [given |-> TRUE, text |-> text]

\* a field of the request as it is sent: given with a value, or left out
Given(value) == [given |-> TRUE, value |-> value]
NotGiven == [given |-> FALSE, value |-> FALSE]

\* ExecuteCryptoTradeParams.dry_run: Field(default=True)
dry_run_default == TRUE

\* the arguments of a request (dry_run as sent), and the validated model
\* (dry_run a bool)
CryptoParams(product_id, side, order_configuration, client_order_id, dry_run) ==
    [product_id |-> product_id, side |-> side,
     order_configuration |-> order_configuration,
     client_order_id |-> client_order_id, dry_run |-> dry_run]
NoCryptoArgs == CryptoParams(NoneS, NoneS, OrderConfiguration(NoBlock, NoBlock, NoBlock),
                             NoKey, NotGiven)
NoCryptoParams == CryptoParams(NoneS, NoneS, OrderConfiguration(NoBlock, NoBlock, NoBlock),
                               NoKey, TRUE)

\* len(product_id) of the product ids used
StrLen(text) ==
    CASE text = "BT" -> 2 [] text = "BTC-USD" -> 7 [] text = "DOGE-USD" -> 8 [] OTHER -> 0

\* ExecuteCryptoTradeParams(...): product_id min_length=3, side a
\* CryptoOrderSide, order_configuration a valid OrderConfiguration
CryptoParamsValid(raw) ==
    /\ StrLen(raw.product_id) >= 3
    /\ raw.side \in {"BUY", "SELL"}
    /\ OrderConfigurationValid(raw.order_configuration)

\* the validated model: a dry_run that was left out takes its default, and
\* end_time of a populated GTD block is coerced to UTC
CryptoParamsValidated(raw) ==
    LET params == [raw EXCEPT !.dry_run = IF @.given THEN @.value ELSE dry_run_default]
    IN IF raw.order_configuration.limit_limit_gtd # NoBlock
       THEN [params EXCEPT !.order_configuration.limit_limit_gtd = coerce_timezone(@)]
       ELSE params

(* ---------------------------- crypto service -------------------------- *)
\* requests execute_crypto_trade builds a payload for in one behaviour
MaxRequests == 2

\* str(Decimal), and str(float) of a whole number: "2" and "2.0"
DecStr(d) == IF d.float THEN ToString(d.value) \o ".0" ELSE ToString(d.value)

EmptyDict == [k \in {} |-> ""]

\* lines 200-207: only the sizes that are set become keys of the block
market_cfg_dict(market_cfg) ==
    (IF ~market_cfg.base_size.none
     THEN "base_size" :> DecStr(market_cfg.base_size) ELSE EmptyDict)
    @@ (IF ~market_cfg.quote_size.none
        THEN "quote_size" :> DecStr(market_cfg.quote_size) ELSE EmptyDict)

\* end_time.isoformat().replace("+00:00", "Z"): isoformat() prints the wall
\* reading followed by the offset of an aware time ("+00:00" for UTC,
\* "+05:30" for IST) and by nothing for a naive one
IsoFormatZ(end_time) ==
    <<ToString(end_time.wall),
      CASE end_time.tz = "UTC" -> "Z"
        [] end_time.tz = "IST" -> "+05:30"
        [] OTHER -> "">>

\* lines 198-230: the order_configuration of the payload, a dict with one key;
\* EmptyDict stands for the branch that raises "Invalid order configuration"
build_order_configuration(oc) ==
    IF oc.market_market_ioc # NoBlock
    THEN "market_market_ioc" :> market_cfg_dict(oc.market_market_ioc)
    ELSE IF oc.limit_limit_gtc # NoBlock
    THEN "limit_limit_gtc" :>
             [base_size |-> DecStr(oc.limit_limit_gtc.base_size),
              limit_price |-> DecStr(oc.limit_limit_gtc.limit_price),
              post_only |-> oc.limit_limit_gtc.post_only]
    ELSE IF oc.limit_limit_gtd # NoBlock
    THEN "limit_limit_gtd" :>
             [base_size |-> DecStr(oc.limit_limit_gtd.base_size),
              limit_price |-> DecStr(oc.limit_limit_gtd.limit_price),
              end_time |-> IsoFormatZ(oc.limit_limit_gtd.end_time),
              post_only |-> oc.limit_limit_gtd.post_only]
    ELSE EmptyDict

\* the values uuid.uuid4() can return: it draws 122 random bits on every
\* call, and nothing keeps it from returning a value it returned before
Uuid4Values == {"u1", "u2"}

\* f"mcp-{uuid.uuid4()}", uuid4 being the value the call returns
GeneratedKey(uuid4) == <<"mcp-", uuid4>>

\* truthiness of an Optional[str]: None and "" are falsy
KeyTruthy(client_order_id) == client_order_id.given /\ client_order_id.text # << >>

client_order_id_constant(client_order_id, uuid4) ==
    IF KeyTruthy(client_order_id) THEN client_order_id.text ELSE GeneratedKey("u1")

\* line 233: params.client_order_id or f"mcp-{uuid.uuid4()}" (uuid4: what the
\* uuid4() call returns that this evaluation makes when the left operand is
\* falsy)
generated_client_order_id(client_order_id, uuid4) ==
    IF KeyTruthy(client_order_id) THEN client_order_id.text ELSE GeneratedKey(uuid4)

build_payload_with_dry_run_flag(params, order_configuration, client_order_id) ==
    [product_id |-> params.product_id, side |-> params.side,
     order_configuration |-> order_configuration,
     client_order_id |-> IF params.dry_run THEN <<"dry-run">> ELSE client_order_id]

\* lines 235-240
build_payload(params, order_configuration, client_order_id) ==
    [product_id |-> params.product_id, side |-> params.side,
     order_configuration |-> order_configuration,
     client_order_id |-> client_order_id]

NoPayload == [kind |-> "none"]

\* the frame of a crypto operation: args is the request as it was sent, env
\* the environment the settings are read from, params the validated order,
\* secret what the secret lookup returned; nCreate counts its create_order
\* calls
CryptoIdle ==
    [pc |-> "idle", op |-> NoneS, env |-> NoneS, secret |-> NoneS,
     args |-> NoCryptoArgs, params |-> NoCryptoParams,
     products |-> {}, payload |-> NoPayload, result |-> NoResult, err |-> NoError,
     nCreate |-> 0]

\* CoinbaseSettings(): the COINBASE_* settings of the environment, both
\* required; they are all there, or one is missing
Environments == {"configured", "missing"}

\* what a secret lookup hands back: a secret, or an exception
Secret(secret) == [kind |-> "return", secret |-> secret, err |-> NoError]
LookupRaised(error) == [kind |-> "raise", secret |-> NoneS, err |-> error]

\* pydantic's ValidationError
PydanticValidationError == [type |-> "ValidationError", text |-> MsgNone]

\* secret_service.py lines 15-18: the arguments are not used; the settings
\* are read from the environment, which raises ValidationError when a
\* required one is missing, so that a secret returned always has credentials
get_coinbase_secrets(env, user_id, scopes) ==
    IF env = "missing"
    THEN LookupRaised(PydanticValidationError)
    ELSE Secret("coinbase-credentials")

\* _create_rest_client lines 18-23: a secret without Coinbase credentials is
\* refused
HasCoinbaseCredentials(secret) == secret = "coinbase-credentials"

MarketBase == OrderConfiguration(MarketIOC(Dec(1), NoneDec), NoBlock, NoBlock)
MarketQuote == OrderConfiguration(MarketIOC(NoneDec, Dec(5)), NoBlock, NoBlock)
OnlyGTC == OrderConfiguration(NoBlock, LimitGTC(Dec(1), Dec(100), FALSE), NoBlock)
OnlyGTD ==
    OrderConfiguration(NoBlock, NoBlock,
                       LimitGTD(Dec(2), Dec(100), EndTime(90000, "IST"), TRUE))

\* configurations the validators refuse, and one they accept per shape
OrderConfigurations ==
    { MarketBase, MarketQuote, OnlyGTC, OnlyGTD,
      OrderConfiguration(MarketIOC(Dec(1), Dec(5)), NoBlock, NoBlock),
      OrderConfiguration(MarketIOC(NoneDec, NoneDec), NoBlock, NoBlock),
      OrderConfiguration(MarketIOC(Dec(0), NoneDec), NoBlock, NoBlock),
      OrderConfiguration(MarketIOC(NoneDec, Dec(-5)), NoBlock, NoBlock),
      OrderConfiguration(MarketIOC(Dec(0), Dec(5)), NoBlock, NoBlock),
      OrderConfiguration(NoBlock, LimitGTC(Dec(1), Dec(0), FALSE), NoBlock),
      OrderConfiguration(NoBlock, NoBlock, NoBlock),
      OrderConfiguration(MarketIOC(Dec(1), NoneDec),
                         LimitGTC(Dec(1), Dec(100), FALSE), NoBlock),
      OrderConfiguration(NoBlock, LimitGTC(Dec(1), Dec(100), FALSE),
                         LimitGTD(Dec(2), Dec(100), EndTime(90000, "naive"), FALSE)),
      OrderConfiguration(MarketIOC(Dec(1), NoneDec),
                         LimitGTC(Dec(1), Dec(100), FALSE),
                         LimitGTD(Dec(2), Dec(100), EndTime(90000, "UTC"), FALSE)) }

ClientOrderIds == {NoKey, Key(<< >>), Key(<<"k1">>)}

\* the arguments the execute_crypto_trade tool is called with; dry_run is
\* sent as true, as false, or not at all
CryptoRequests ==
    { CryptoParams("BTC-USD", "BUY", oc, NoKey, NotGiven) : oc \in OrderConfigurations }
    \cup { CryptoParams("BTC-USD", "BUY", MarketBase, k, d) :
               k \in ClientOrderIds, d \in {Given(TRUE), Given(FALSE), NotGiven} }
    \cup { CryptoParams("BTC-USD", "SELL", oc, Key(<<"k1">>), d) :
               oc \in {MarketBase, MarketQuote, OnlyGTC},
               d \in {Given(TRUE), Given(FALSE)} }
    \cup { CryptoParams("DOGE-USD", "BUY", MarketBase, NoKey, Given(TRUE)),
           CryptoParams("BT", "BUY", MarketBase, NoKey, Given(TRUE)),
           CryptoParams("BTC-USD", "HOLD", MarketBase, NoKey, Given(TRUE)) }

\* the execute_crypto_trade tool is called with a request, in an environment
CryptoRequest(p) ==
    /\ call[p].pc = "idle"
    /\ Len(built) < MaxRequests
    /\ \E args \in CryptoRequests, env \in Environments :
          Set(p, [CryptoIdle EXCEPT !.pc = "validate", !.op = "execute_crypto_trade",
                                    !.env = env, !.args = args])
    /\ UNCHANGED <<session, now, issued, net, uuids, built>>

\* the request is validated into an ExecuteCryptoTradeParams
CryptoValidate(p) ==
    /\ call[p].pc = "validate"
    /\ IF CryptoParamsValid(call[p].args)
       THEN Set(p, [call[p] EXCEPT !.pc = "tool",
                                   !.params = CryptoParamsValidated(call[p].args)])
       ELSE Set(p, Raise(call[p], PydanticValidationError))
    /\ UNCHANGED <<session, now, issued, net, uuids, built>>

\* coinbase_tools lines 74-79: a SELL order without a base size in a market
\* block has its size asked for
NeedsBaseSize(order) ==
    /\ order.side = "SELL"
    /\ \/ order.order_configuration.market_market_ioc = NoBlock
       \/ order.order_configuration.market_market_ioc.base_size.none
       \/ order.order_configuration.market_market_ioc.base_size.value = 0

\* execute_crypto_trade_tool lines 71-81 and 108: the secret is looked up
\* with the auth headers the middleware has put into the request context
\* (server.py lines 44-63: a request without them is refused before any
\* tool), which raises when the environment has no credentials; then the
\* first service call of the tool, get_crypto_portfolio or
\* get_crypto_products, creates its client (lines 132, 179) and asks the
\* provider
execute_crypto_trade_tool(p) ==
    /\ call[p].pc = "tool"
    /\ LET auth_headers == AuthHeaders("user-123", <<"trade">>)
           secret == get_coinbase_secrets(call[p].env, auth_headers.user_id,
                                          auth_headers.scopes)
       IN IF secret.kind = "raise"
          THEN Set(p, Raise(call[p], secret.err))
          ELSE IF ~HasCoinbaseCredentials(secret.secret)
          THEN Set(p, Raise([call[p] EXCEPT !.secret = secret.secret], RuntimeError(
                   <<"Missing Coinbase API credentials (api_key/api_secret)">>)))
          ELSE IF NeedsBaseSize(call[p].params)
          THEN Set(p, [call[p] EXCEPT !.secret = secret.secret, !.pc = "get_accounts"])
          ELSE Set(p, [call[p] EXCEPT !.secret = secret.secret, !.pc = "get_products"])
    /\ UNCHANGED <<session, now, issued, net, uuids, built>>

\* the answers of client.get_accounts: the accounts, or an exception
GetAccountsAnswers == { [kind |-> "accounts"], Raised(MsgTimeout) }

ProviderGetAccounts(p) ==
    /\ Awaiting(p, "get_accounts")
    /\ \E resp \in GetAccountsAnswers : Receive(p, resp)
    /\ UNCHANGED <<session, now, issued, call, uuids, built>>

\* lines 81-98: the portfolio summary is built and the prompt is composed
HandlePortfolio(p) ==
    /\ Answered(p, "get_accounts")
    /\ Consume(p)
    /\ IF net[p].kind = "raise"
       THEN Set(p, Raise(call[p], [type |-> "Exception", text |-> net[p].message]))
       ELSE Set(p, [call[p] EXCEPT !.pc = "elicit_size"])
    /\ UNCHANGED <<session, now, issued, uuids, built>>

\* what the user answers to an elicitation: accept with a value, decline, cancel
Elicited(action, data) == [action |-> action, data |-> data]
ElicitSizeAnswers ==
    { Elicited("accept", Float(2)), Elicited("accept", Float(0)),
      Elicited("decline", NoneDec), Elicited("cancel", NoneDec) }

\* lines 100-106: the user is asked for the base size; an accepted answer is
\* assigned to the market block (which is None for a limit order), any other
\* answer ends the tool
ElicitSize(p) ==
    /\ call[p].pc = "elicit_size"
    /\ \E result \in ElicitSizeAnswers :
          IF result.action # "accept"
          THEN Set(p, [call[p] EXCEPT !.pc = "done",
                          !.result = [kind |-> "str",
                                      value |-> <<"User rejected the request">>]])
          ELSE IF call[p].params.order_configuration.market_market_ioc = NoBlock
          THEN Set(p, Raise(call[p],
                   [type |-> "AttributeError",
                    text |-> <<"'NoneType' object has no attribute 'base_size'">>]))
          ELSE Set(p, [call[p] EXCEPT
                          !.pc = "get_products",
                          !.params.order_configuration.market_market_ioc.base_size =
                              result.data,
                          !.params.order_configuration.market_market_ioc.quote_size =
                              NoneDec])
    /\ UNCHANGED <<session, now, issued, net, uuids, built>>

\* the answers of client.get_products, as the list of product ids
\* get_crypto_products makes of them, or an exception
GetProductsAnswers ==
    { [kind |-> "products", ids |-> {"BTC-USD", "ETH-USD"}],
      [kind |-> "products", ids |-> {"ETH-USD"}],
      Raised(MsgTimeout) }

ProviderGetProducts(p) ==
    /\ Awaiting(p, "get_products")
    /\ \E resp \in GetProductsAnswers : Receive(p, resp)
    /\ UNCHANGED <<session, now, issued, call, uuids, built>>

\* lines 108-110 and 126-127: a listed product goes on to
\* execute_crypto_trade, for any other the user is asked
HandleProducts(p) ==
    /\ Answered(p, "get_products")
    /\ Consume(p)
    /\ IF net[p].kind = "raise"
       THEN Set(p, Raise(call[p], [type |-> "Exception", text |-> net[p].message]))
       ELSE IF call[p].params.product_id \in net[p].ids
       THEN Set(p, [call[p] EXCEPT !.pc = "execute", !.products = net[p].ids])
       ELSE Set(p, [call[p] EXCEPT !.pc = "elicit_product", !.products = net[p].ids])
    /\ UNCHANGED <<session, now, issued, uuids, built>>

ElicitProductAnswers ==
    { Elicited("accept", "ETH-USD"), Elicited("accept", "XRP-USD"),
      Elicited("decline", NoneS), Elicited("cancel", NoneS) }

\* lines 111-125: the user is asked for a product id.  An accepted id that is
\* not listed is refused; in every other case, an accepted and listed id
\* included, the function ends without a return statement: it returns None
\* and no order is built.
ElicitProduct(p) ==
    /\ call[p].pc = "elicit_product"
    /\ \E elicit_result \in ElicitProductAnswers :
          IF elicit_result.action = "accept"
          THEN IF elicit_result.data \notin call[p].products
               THEN Set(p, [call[p] EXCEPT
                               !.pc = "done",
                               !.params.product_id = elicit_result.data,
                               !.result =
                                   [kind |-> "str",
                                    value |-> <<"Sorry, the product: ", elicit_result.data,
                                                " is not available on coinbase.">>]])
               ELSE Set(p, [call[p] EXCEPT
                               !.pc = "done",
                               !.params.product_id = elicit_result.data,
                               !.result = [kind |-> "NoneType"]])
          ELSE Set(p, [call[p] EXCEPT !.pc = "done", !.result = [kind |-> "NoneType"]])
    /\ UNCHANGED <<session, now, issued, net, uuids, built>>

\* execute_crypto_trade lines 196-246: the client is created, the payload is
\* built, and it is returned (dry run) or handed to create_order
ExecuteCryptoTrade(p) ==
    /\ call[p].pc = "execute"
    /\ \E uuid4 \in Uuid4Values :
       LET params == call[p].params
           order_configuration == build_order_configuration(params.order_configuration)
           client_order_id == generated_client_order_id(params.client_order_id, uuid4)
           payload == build_payload(params, order_configuration, client_order_id)
       IN IF ~HasCoinbaseCredentials(call[p].secret)
          THEN /\ Set(p, Raise(call[p], RuntimeError(
                      <<"Missing Coinbase API credentials (api_key/api_secret)">>)))
               /\ UNCHANGED <<uuids, built>>
          ELSE IF order_configuration = EmptyDict
          THEN /\ Set(p, Raise(call[p], RuntimeError(<<"Invalid order configuration">>)))
               /\ UNCHANGED <<uuids, built>>
          ELSE /\ uuids' = IF KeyTruthy(params.client_order_id)
                           THEN uuids ELSE Append(uuids, uuid4)
               /\ built' = Append(built, [args |-> call[p].args, params |-> params,
                                          payload |-> payload,
                                          sent |-> ~params.dry_run])
               /\ IF params.dry_run
                  THEN Set(p, [call[p] EXCEPT
                                  !.pc = "done", !.payload = payload,
                                  !.result = [kind |-> "dict", dry_run |-> TRUE,
                                              payload |-> payload]])
                  ELSE Set(p, [call[p] EXCEPT
                                  !.pc = "create_order", !.payload = payload,
                                  !.nCreate = @ + 1])
    /\ UNCHANGED <<session, now, issued, net>>

\* the answers of client.create_order(**payload): an SDK response object, a
\* dict, some other value, or an exception
CreateOrderAnswers ==
    { [kind |-> "object", to_dict |-> "order-1"],
      [kind |-> "dict", value |-> "order-1"],
      [kind |-> "other", str |-> "order-1"],
      Raised(MsgTimeout) }

ProviderCreateOrder(p) ==
    /\ Awaiting(p, "create_order")
    /\ \E resp \in CreateOrderAnswers : Receive(p, resp)
    /\ UNCHANGED <<session, now, issued, call, uuids, built>>

\* lines 246-252
HandleCreateOrder(p) ==
    /\ Answered(p, "create_order")
    /\ Consume(p)
    /\ LET response == net[p] IN
       CASE response.kind = "raise" ->
               Set(p, Raise(call[p], [type |-> "Exception", text |-> response.message]))
         [] response.kind = "object" ->
               Set(p, [call[p] EXCEPT !.pc = "done",
                          !.result = [kind |-> "dict", value |-> response.to_dict]])
         [] response.kind = "dict" ->
               Set(p, [call[p] EXCEPT !.pc = "done",
                          !.result = [kind |-> "dict", value |-> response.value]])
         [] OTHER ->
               Set(p, [call[p] EXCEPT !.pc = "done",
                          !.result = [kind |-> "dict", raw |-> response.str]])
    /\ UNCHANGED <<session, now, issued, uuids, built>>

\* the operation has returned or raised
CryptoReturn(p) ==
    /\ call[p].pc \in {"done", "raised"}
    /\ Set(p, CryptoIdle)
    /\ UNCHANGED <<session, now, issued, net, uuids, built>>

InitCrypto ==
    /\ session = [access_token |-> NoToken, login_time |-> NoTime]
    /\ now = CHOOSE t \in SampleTimes : TRUE
    /\ issued = << >>
    /\ call = [p \in AllCallers |-> CryptoIdle]
    /\ net = [p \in AllCallers |-> Pending]
    /\ uuids = << >>
    /\ built = << >>

NextCrypto ==
    \E p \in SeqCallers :
       \/ CryptoRequest(p)
       \/ CryptoValidate(p)
       \/ execute_crypto_trade_tool(p)
       \/ ProviderGetAccounts(p)
       \/ HandlePortfolio(p)
       \/ ElicitSize(p)
       \/ ProviderGetProducts(p)
       \/ HandleProducts(p)
       \/ ElicitProduct(p)
       \/ ExecuteCryptoTrade(p)
       \/ ProviderCreateOrder(p)
       \/ HandleCreateOrder(p)
       \/ CryptoReturn(p)

\* one caller issuing one crypto order after the other
SpecCrypto == InitCrypto /\ [][NextCrypto]_vars

(* ----------------------- get_portfolio_holdings tool ------------------ *)
\* the request contexts the tool is called with
Contexts ==
    { AuthHeaders(u, sc) : u \in {"user-123", "user-err"},
                           sc \in {<< >>, <<"read">>, <<"read", "holdings">>} }
    \cup {NoAuthHeaders}

\* the Credential Provider: the credentials of the user
SecretOf(user_id) == IF user_id = "user-123" THEN "A" ELSE "B"

\* get_secret(user_id, scopes): the secret with the user's credentials
get_secret(user_id, scopes) == Secret(SecretOf(user_id))

\* secret_service.py lines 8-12: the arguments are not used; the ANGELONE_*
\* settings are read from the environment, which raises ValidationError when
\* a required one is missing
get_angel_one_secrets(env, user_id, scopes) ==
    IF env = "missing"
    THEN LookupRaised(PydanticValidationError)
    ELSE Secret(EnvSecret)

\* One of the three tool functions defined under the name
\* get_portfolio_holdings is invoked with a request context:
\* get_portfolio_holdings of portfolio_tools.py, which looks the secret up
\* with get_secret and calls get_holdings; get_portfolio_holdings_tool of
\* angel_one_tools.py, which looks it up with get_angel_one_secrets and calls
\* get_holdings; and get_portfolio_holdings of portfolio.py (here
\* "portfolio.get_portfolio_holdings"), which looks it up with get_secret and
\* talks to the provider itself.  get_secret reads no settings.
ToolCall(p) ==
    /\ call[p].pc = "idle" /\ call[p].tool.pc = "idle"
    /\ \E fn \in {"get_portfolio_holdings", "get_portfolio_holdings_tool",
                  "portfolio.get_portfolio_holdings"},
          auth_headers \in Contexts, env \in Environments :
          /\ fn # "get_portfolio_holdings_tool" => env = "configured"
          /\ Set(p, [Idle EXCEPT !.tool = [NoTool EXCEPT !.pc = "get_state", !.fn = fn,
                                                        !.env = env,
                                                        !.auth_headers = auth_headers]])
    /\ UNCHANGED <<session, now, issued, net, uuids, built>>

ToolGetSecret_without_scopes(p) ==
    /\ call[p].tool.pc = "get_state"
    /\ LET tool == call[p].tool
           auth_headers == tool.auth_headers
           secret == IF tool.fn # "get_portfolio_holdings_tool"
                     THEN get_secret(auth_headers.user_id, << >>)
                     ELSE get_angel_one_secrets(tool.env, auth_headers.user_id, << >>)
           called == [tool EXCEPT !.secret_calls =
                         Append(@, [user_id |-> auth_headers.user_id, scopes |-> << >>])]
       IN IF auth_headers.kind = "none"
          THEN Set(p, [call[p] EXCEPT !.tool = [tool EXCEPT !.pc = "raised"]])
          ELSE IF secret.kind = "raise"
          THEN Set(p, [call[p] EXCEPT
                          !.tool = [called EXCEPT !.pc = "raised", !.err = secret.err]])
          ELSE Set(p, [call[p] EXCEPT
                          !.tool = [called EXCEPT !.pc = "secret",
                                                  !.secret = secret.secret]])
    /\ UNCHANGED <<session, now, issued, net, uuids, built>>

\* lines 43-44 (44-45; portfolio.py 48-51): auth_headers =
\* ctx.get_state("auth_headers"); secret = get_secret(auth_headers.user_id,
\* auth_headers.scopes), or get_angel_one_secrets(...) in
\* get_portfolio_holdings_tool
ToolGetSecret(p) ==
    /\ call[p].tool.pc = "get_state"
    /\ LET tool == call[p].tool
           auth_headers == tool.auth_headers
           secret == IF tool.fn # "get_portfolio_holdings_tool"
                     THEN get_secret(auth_headers.user_id, auth_headers.scopes)
                     ELSE get_angel_one_secrets(tool.env, auth_headers.user_id,
                                                auth_headers.scopes)
           called == [tool EXCEPT !.secret_calls =
                         Append(@, [user_id |-> auth_headers.user_id,
                                    scopes |-> auth_headers.scopes])]
       IN IF auth_headers.kind = "none"
          THEN Set(p, [call[p] EXCEPT
                          !.tool = [tool EXCEPT
                                       !.pc = "raised",
                                       !.err = [type |-> "AttributeError",
                                                text |-> <<"'NoneType' object has no ",
                                                           "attribute 'user_id'">>]]])
          ELSE IF secret.kind = "raise"
          THEN Set(p, [call[p] EXCEPT
                          !.tool = [called EXCEPT !.pc = "raised", !.err = secret.err]])
          ELSE Set(p, [call[p] EXCEPT
                          !.tool = [called EXCEPT !.pc = "secret",
                                                  !.secret = secret.secret]])
    /\ UNCHANGED <<session, now, issued, net, uuids, built>>

\* line 45 (46): get_holdings(secret) is called
ToolGetHoldings(p) ==
    /\ call[p].tool.pc = "secret"
    /\ call[p].tool.fn # "portfolio.get_portfolio_holdings"
    /\ Set(p, [call[p] EXCEPT
                  !.pc = "ensure", !.op = "get_holdings", !.id = call[p].tool.secret,
                  !.session0 = session,
                  !.tool.pc = "get_holdings",
                  !.tool.holdings_calls = Append(@, call[p].tool.secret)])
    /\ UNCHANGED <<session, now, issued, net, uuids, built>>

\* isinstance(response, dict) and response.get("status") is False
is_error_response(response) == response.kind = "dict" /\ response.status = "False"

\* lines 45-52 (46-53): get_holdings has returned or raised.  What it raised
\* leaves the tool as it is; the response it returned is returned, or
\* refused when its status is False.
ToolHandleHoldings(p) ==
    /\ call[p].tool.pc = "get_holdings"
    /\ call[p].pc \in {"done", "raised"}
    /\ IF call[p].pc = "raised"
       THEN Set(p, [call[p] EXCEPT !.tool.pc = "raised", !.tool.err = call[p].err])
       ELSE LET response == call[p].result.resp IN
            IF is_error_response(response)
            THEN Set(p, [call[p] EXCEPT
                            !.tool.pc = "raised",
                            !.tool.err = RuntimeError(
                                <<"holding() failed: ">> \o
                                GetMessageOr(response, <<"Unknown error">>))])
            ELSE Set(p, [call[p] EXCEPT !.tool.pc = "done", !.tool.result = response])
    /\ UNCHANGED <<session, now, issued, net, uuids, built>>

\* secret.share_credentials.history_api_key
history_api_key(id) == "history_api_key:" \o id

\* portfolio.py lines 57-63: the tool builds its own client, with the history
\* API key and no token, and logs in with it: generateSession(client_code,
\* pin, totp_secret).  _session is neither read nor written.
ToolSmartConnect(p) ==
    /\ call[p].tool.pc = "secret"
    /\ call[p].tool.fn = "portfolio.get_portfolio_holdings"
    /\ Set(p, [call[p] EXCEPT
                  !.pc = "tool.generateSession", !.op = "portfolio.get_portfolio_holdings",
                  !.id = call[p].tool.secret,
                  !.session0 = session,
                  !.smart = [api_key |-> history_api_key(call[p].tool.secret),
                             access_token |-> NoToken],
                  !.nLogin = @ + 1,
                  !.tool.pc = "generateSession"])
    /\ UNCHANGED <<session, now, issued, net, uuids, built>>

\* portfolio.py lines 59-64: what generateSession returned is dropped (the
\* client keeps the token of a successful login), and holding() is requested
\* whatever the login did
ToolSessionGenerated(p) ==
    /\ Answered(p, "tool.generateSession")
    /\ Consume(p)
    /\ LET data == net[p]
           jwtToken == IF data.kind = "dict" /\ data.status = "True"
                          /\ data.data.present /\ data.data.has_jwtToken
                       THEN data.data.jwtToken ELSE NoToken
       IN Set(p, [call[p] EXCEPT !.pc = "tool.holding",
                                 !.smart.access_token = jwtToken,
                                 !.nHolding = @ + 1,
                                 !.tool.pc = "holding"])
    /\ UNCHANGED <<session, now, issued, uuids, built>>

\* portfolio.py lines 64-70: the answer of holding() is returned, or refused
\* when its status is False; an expiry signal is not looked for and nothing
\* is retried
ToolHoldingResponse(p) ==
    /\ Answered(p, "tool.holding")
    /\ Consume(p)
    /\ LET response == net[p] IN
       IF is_error_response(response)
       THEN Set(p, [call[p] EXCEPT
                       !.pc = "tool.return",
                       !.tool.pc = "raised",
                       !.tool.err = RuntimeError(
                           <<"holding() failed: ">> \o
                           GetMessageOr(response, <<"Unknown error">>))])
       ELSE Set(p, [call[p] EXCEPT !.pc = "tool.return",
                                   !.tool.pc = "done", !.tool.result = response])
    /\ UNCHANGED <<session, now, issued, uuids, built>>

\* the tool call has returned or raised
ToolReturn(p) ==
    /\ call[p].tool.pc \in {"done", "raised"}
    /\ Set(p, Idle)
    /\ UNCHANGED <<session, now, issued, net, uuids, built>>

NextTool ==
    \/ Tick
    \/ \E p \in SeqCallers :
          \/ ToolCall(p)
          \/ ToolGetSecret(p)
          \/ ToolGetHoldings(p)
          \/ Ensure(p)
          \/ Connect(p)
          \/ ProviderLogin(p)
          \/ HandleLogin(p)
          \/ datetime_now(p)
          \/ LoginTime(p)
          \/ ProviderHolding(p)
          \/ HandleHolding(p)
          \/ ToolHandleHoldings(p)
          \/ ToolSmartConnect(p)
          \/ ToolSessionGenerated(p)
          \/ ToolHoldingResponse(p)
          \/ ToolReturn(p)

\* one caller invoking the get_portfolio_holdings tool again and again, the
\* tool calling get_holdings of the service against the shared _session, or
\* (portfolio.py) logging in and asking for the holdings itself
SpecTool == Init /\ [][NextTool]_vars

(* ------------------------------- claims ------------------------------- *)
SubmitOps == {"buy_delivery_trade", "buy_delivery_trade_with_order_params"}
Last(seq) == seq[Len(seq)]
FiveAM(day) == day * SecondsPerDay + ResetHour * SecondsPerHour

\* the 05:00 boundaries of the days the clock can show, and of the two after
ResetBoundaries == { FiveAM(day) : day \in 0..3 }

\* the first 05:00 boundary strictly after instant a
FirstResetAfter(a) ==
    CHOOSE b \in ResetBoundaries :
        b > a /\ \A c \in ResetBoundaries : c > a => b <= c

\* C1: a cached session with a token and an acquisition time a is valid at
\* time t exactly when t is before the first 05:00 boundary strictly after a;
\* a session acquired at 04:59:59 is invalid at 05:00:00 of the same day.
C1_ValidUntilNextReset ==
    (session.access_token # NoToken /\ session.login_time # NoTime) =>
        /\ \A t \in SampleTimes :
              session_valid(session, t) <=> t < FirstResetAfter(session.login_time)
        /\ next_reset_after(session.login_time) = FirstResetAfter(session.login_time)
        /\ session.login_time = FiveAM(0) - 1 => ~session_valid(session, FiveAM(0))

\* C1 witness: a session acquired at 04:59:59 of day 0 is found invalid at
\* 05:00:00 of day 0, and the operation logs in again
C1_Witness ==
    \E p \in AllCallers :
        /\ call[p].pc = "generateSession"
        /\ session.access_token # NoToken
        /\ session.login_time = FiveAM(0) - 1
        /\ now = FiveAM(0)

\* C2 (as claimed): within one order-submission call, expiry signals trigger
\* at most one re-authentication retry.
C2_AtMostOneRetry ==
    \A p \in AllCallers : call[p].op \in SubmitOps => call[p].depth <= 1

Intents(placed) == [i \in DOMAIN placed |-> placed[i].intent]

\* the case of C3: the operation returned after exactly one retry, the
\* provider having expired the first placement and accepted the second
C3_Case(p) ==
    /\ call[p].op \in SubmitOps
    /\ call[p].pc = "done"
    /\ call[p].depth = 1
    /\ Intents(call[p].placed) = <<"expire", "accept">>

\* C3 (as claimed): expiry on the first placement and acceptance of the
\* second make the call authenticate exactly twice, whatever the cache held.
C3_AlwaysTwoLogins ==
    \A p \in AllCallers :
        C3_Case(p) =>
            /\ call[p].nLogin = 2
            /\ call[p].result.order_id = call[p].placed[2].orderid

\* C3 (amended): the call authenticates exactly twice when it found no valid
\* cached session at its start and exactly once when it found one, and it
\* returns the order id of the second placement answer.
C3_LoginsByInitialCache ==
    \A p \in AllCallers :
        C3_Case(p) =>
            /\ call[p].nLogin = IF call[p].cache0 THEN 1 ELSE 2
            /\ call[p].result.order_id = call[p].placed[2].orderid

\* C3 witness: a retried call that started on a still-valid cached token
C3_Witness ==
    \E p \in AllCallers :
        /\ C3_Case(p)
        /\ call[p].cache0
        /\ call[p].nLogin = 1
        /\ call[p].result.order_id = "s:101"

\* the pcs at which a request made with smart's token is in flight
AuthenticatedPcs == {"holding", "searchScrip", "placeOrder", "orderDetails", "orderBook"}

\* C4 (as claimed): a call made for one identity never sends a token that
\* was obtained by authenticating another identity.
C4_TokenOfOwnIdentity ==
    \A p \in AllCallers :
        call[p].pc \in AuthenticatedPcs =>
            /\ call[p].smart.access_token \in DOMAIN issued
            /\ issued[call[p].smart.access_token] = call[p].id

\* a placement answer that is an application-level rejection and carries no
\* session-expiry signal
C5_IsPlainRejection(resp) ==
    /\ resp.kind = "dict"
    /\ resp.status = "False" \/ resp.error # Absent
    /\ resp.code \notin {"int:401", "str:AG8001"}
    /\ ~HasSessionMarker(resp.message)

SameCounters(f, g) ==
    /\ f.nLogin = g.nLogin /\ f.nSearch = g.nSearch /\ f.nPlace = g.nPlace
    /\ f.nDetail = g.nDetail /\ f.nBook = g.nBook /\ f.nSleep = g.nSleep
    /\ f.depth = g.depth

\* C5: a placement answer that is a rejection and not a session-expiry signal
\* makes the call fail at once with the provider's message: the step that
\* handles it raises, leaves the cached session alone and makes no further
\* login, placement or status request, and a call that raised makes none later.
C5_RejectionFailsAtOnce ==
    [][\A p \in AllCallers :
          /\ (Answered(p, "placeOrder") /\ C5_IsPlainRejection(net[p])
              /\ call'[p] # call[p]) =>
                /\ call'[p].pc = "raised"
                /\ call'[p].err =
                       RuntimeError(<<"buy_delivery_trade failed: ">> \o GetMessage(net[p]))
                /\ session' = session
                /\ SameCounters(call'[p], call[p])
          /\ (call[p].pc = "raised" /\ call'[p] # call[p]) =>
                (call'[p] = Idle /\ session' = session)]_vars

\* C5 witness: a call that raised on a rejected placement, without polling
C5_Witness ==
    \E p \in AllCallers :
        /\ call[p].pc = "raised"
        /\ call[p].placed # << >>
        /\ Last(call[p].placed).intent = "reject"
        /\ call[p].err.text = <<"buy_delivery_trade failed: ">> \o MsgRejected
        /\ call[p].nDetail = 0 /\ call[p].nBook = 0
        /\ session.access_token # NoToken

\* the number of orders the provider accepted during the operation
NAccepted(p) ==
    Cardinality({ i \in DOMAIN call[p].placed : call[p].placed[i].intent = "accept" })

\* C6: a submit call ends in an error only if the provider accepted no order
\* during the call, and returns a response only if it accepted exactly one.
C6_OutcomeTellsPlacement ==
    \A p \in AllCallers :
        call[p].op \in SubmitOps =>
            /\ call[p].pc = "raised" => NAccepted(p) = 0
            /\ call[p].pc = "done" => NAccepted(p) = 1

\* C6 witness: a response with null status fields for an accepted order
C6_Witness ==
    \E p \in AllCallers :
        /\ call[p].op \in SubmitOps
        /\ call[p].pc = "done"
        /\ NAccepted(p) = 1
        /\ call[p].attempt = max_attempts
        /\ call[p].result.order_status = NoneS
        /\ call[p].result.order_status_details = NoItem

\* C7: once a placement is accepted the call never aborts: it polls and then
\* returns the accepted answer's order id with the status and details the
\* reconciliation produced, both null when the reconciliation raised.
C7_ReconciliationNeverAborts ==
    \A p \in AllCallers :
        (/\ call[p].op \in SubmitOps
         /\ call[p].placed # << >>
         /\ Last(call[p].placed).intent = "accept"
         /\ ~Awaiting(p, "placeOrder") /\ ~Answered(p, "placeOrder")) =>
            /\ call[p].pc \in {"orderDetails", "orderBook", "sleep", "done"}
            /\ call[p].pc = "done" =>
                  /\ call[p].result.kind = "order"
                  /\ call[p].result.order_id = Last(call[p].placed).orderid
                  /\ call[p].result.order_status_details = call[p].order_status_details
                  /\ call[p].result.order_status =
                        IF call[p].order_status_details.kind = "dict"
                        THEN call[p].order_status_details.orderstatus ELSE NoneS
                  /\ call[p].rec_raised =>
                        /\ call[p].result.order_status = NoneS
                        /\ call[p].result.order_status_details = NoItem

\* C7 witness: the reconciliation raised and the call returned the order id
C7_Witness ==
    \E p \in AllCallers :
        /\ call[p].op \in SubmitOps
        /\ call[p].pc = "done"
        /\ call[p].rec_raised
        /\ call[p].result.order_id = "s:101"
        /\ call[p].result.order_status = NoneS

\* an order-book entry that is the placed order: by unique id, else by order id
C8_IsPlacedOrder(item, p) ==
    /\ item.kind = "dict"
    /\ \/ call[p].unique_order_id # NoneS /\ item.uniqueorderid = call[p].unique_order_id
       \/ call[p].order_id # NoneS /\ PyStr(item.orderid) = PyStr(call[p].order_id)

C8_ListingWithMatch(resp, p) ==
    /\ resp.kind = "dict" /\ resp.status = "True" /\ resp.data.kind = "list"
    /\ \E i \in DOMAIN resp.data.items : C8_IsPlacedOrder(resp.data.items[i], p)

\* C8: when no detail lookup has produced a payload and the listing of poll k
\* is the first to contain the placed order, the reconciler returns a
\* matching entry and its orderstatus, after k orderBook calls and k-1 sleeps.
C8_MatchOnPollK ==
    [][\A p \in AllCallers :
          (Answered(p, "orderBook") /\ C8_ListingWithMatch(net[p], p)
           /\ call'[p] # call[p]) =>
              /\ call'[p].pc = "done"
              /\ ~call'[p].rec_raised
              /\ C8_IsPlacedOrder(call'[p].result.order_status_details, p)
              /\ \E i \in DOMAIN net[p].data.items :
                    call'[p].result.order_status_details = net[p].data.items[i]
              /\ call'[p].result.order_status =
                     call'[p].result.order_status_details.orderstatus
              /\ call'[p].nBook = call[p].attempt + 1
              /\ call'[p].nSleep = call'[p].nBook - 1
              /\ call[p].unique_order_id # NoneS => call'[p].nDetail = call'[p].nBook]_vars

\* C8 witness: every detail lookup failed and the third listing had the
\* order: three orderBook calls, two sleeps
C8_Witness ==
    \E p \in AllCallers :
        /\ call[p].pc = "done"
        /\ call[p].nDetail = 3 /\ call[p].nBook = 3 /\ call[p].nSleep = 2
        /\ call[p].last_error_message # MsgNone
        /\ call[p].result.order_status = "complete"

\* C9: when no attempt of the max_attempts yields a match, the reconciler
\* returns (null, null) without raising; no error answer or raised exception
\* of the two provider calls makes the reconciler leave with an error.
C9_ExhaustedReturnsNull ==
    \A p \in AllCallers :
        /\ call[p].pc # "raised"
        /\ call[p].attempt <= max_attempts
        /\ call[p].attempt = max_attempts =>
              /\ call[p].pc = "done"
              /\ ~call[p].rec_raised
              /\ call[p].nBook = max_attempts
              /\ call[p].result.order_status = NoneS
              /\ call[p].result.order_status_details = NoItem

\* C9 witness: five attempts with failing lookups, null status returned
C9_Witness ==
    \E p \in AllCallers :
        /\ call[p].pc = "done"
        /\ call[p].attempt = max_attempts
        /\ call[p].nDetail = max_attempts /\ call[p].nBook = max_attempts
        /\ call[p].last_error_message = MsgTimeout
        /\ call[p].result.order_status = NoneS

C10_IsNseEquity(item) == item.exchange = "NSE" /\ item.tradingsymbol.series = "-EQ"

\* a successful search answer listing both an NSE "-EQ" symbol and an NSE
\* symbol without the suffix
C10_MixedListing(resp) ==
    /\ resp.kind = "dict" /\ resp.status = "True"
    /\ \E i \in DOMAIN resp.data : C10_IsNseEquity(resp.data[i])
    /\ \E i \in DOMAIN resp.data :
          resp.data[i].exchange = "NSE" /\ resp.data[i].tradingsymbol.series # "-EQ"

\* C10: buy_delivery_trade resolves such a listing to an NSE "-EQ" entry
\* of the listing, in whatever order the entries come.
C10_PrefersEquitySuffix ==
    [][\A p \in AllCallers :
          (Answered(p, "searchScrip") /\ call[p].op = "buy_delivery_trade"
           /\ C10_MixedListing(net[p]) /\ call'[p] # call[p]) =>
              \E i \in DOMAIN net[p].data :
                 /\ C10_IsNseEquity(net[p].data[i])
                 /\ IF net[p].data[i].symboltoken = ""
                    THEN call'[p].pc = "raised"
                    ELSE /\ call'[p].pc = "placeOrder"
                         /\ call'[p].orderparams.tradingsymbol = net[p].data[i].tradingsymbol
                         /\ call'[p].orderparams.symboltoken = net[p].data[i].symboltoken
                         /\ call'[p].orderparams.exchange = "NSE"]_vars

\* C10 witness: the listing [TCS-BE, TCS-EQ] is about to be resolved
C10_Witness ==
    \E p \in AllCallers :
        /\ Answered(p, "searchScrip")
        /\ call[p].op = "buy_delivery_trade"
        /\ net[p].kind = "dict" /\ net[p].status = "True"
        /\ net[p].data = <<Scrip("NSE", TCS_BE, "t2"), Scrip("NSE", TCS_EQ, "t1")>>

\* a search answer that is not a session-expiry signal and resolves nothing:
\* a success with zero matches, a non-success answer, or no answer at all
C11_IsResolutionFailure(resp) ==
    /\ ~is_session_expired(resp)
    /\ \/ resp.kind # "dict"
       \/ resp.status # "True"
       \/ resp.data = << >>

\* the text the operation op fails with on the search answer resp
C11_ErrorText(op, resp) ==
    IF resp.kind # "dict" THEN <<"searchScrip() failed: ", "Unknown error">>
    ELSE IF resp.status # "True" THEN <<"searchScrip() failed: ">> \o GetMessage(resp)
    ELSE IF op = "buy_delivery_trade"
    THEN <<"No matching scrip found for the provided share_name">>
    ELSE <<"No matching scrip found to resolve symboltoken for the provided ",
           "tradingsymbol">>

\* C11 (as claimed): a search answer with zero matches, or a non-success
\* answer that is not a session-expiry signal, makes the operation fail with
\* the resolution error of its kind, and no placement call has been made in
\* that operation.
C11_NoPlacementInOperation ==
    [][\A p \in AllCallers :
          (Answered(p, "searchScrip") /\ C11_IsResolutionFailure(net[p])
           /\ call'[p] # call[p]) =>
              /\ call'[p].pc = "raised"
              /\ call'[p].err = RuntimeError(C11_ErrorText(call[p].op, net[p]))
              /\ call'[p].nPlace = 0]_vars

\* C11 (amended): a search answer with zero matches, or a non-success answer
\* that is not a session-expiry signal, makes the operation fail with the
\* resolution error of its kind: the step that handles it raises, makes no
\* placement (or any other provider) call and leaves the session alone; no
\* placement call has then been made in the operation unless the search ran
\* in a retry, where the only placement calls made are those whose answers
\* signalled an expired session; and a call that raised makes no call later.
C11_ResolutionFailureAborts ==
    [][\A p \in AllCallers :
          (Answered(p, "searchScrip") /\ C11_IsResolutionFailure(net[p])
           /\ call'[p] # call[p]) =>
              /\ call'[p].pc = "raised"
              /\ call'[p].err = RuntimeError(C11_ErrorText(call[p].op, net[p]))
              /\ SameCounters(call'[p], call[p])
              /\ call'[p].depth = 0 => call'[p].nPlace = 0
              /\ call'[p].nPlace <= call'[p].depth
              /\ call'[p].placed = call[p].placed
              /\ \A i \in DOMAIN call'[p].placed :
                     call'[p].placed[i].intent = "expire"
              /\ session' = session]_vars

\* C11 witness: a non-success search answer without expiry signal has made
\* the operation raise, no placement call having been made
C11_Witness ==
    \E p \in AllCallers :
        /\ call[p].pc = "raised"
        /\ call[p].op \in SubmitOps
        /\ call[p].err = RuntimeError(<<"searchScrip() failed: ">> \o MsgRejected)
        /\ call[p].nSearch = 1 /\ call[p].nPlace = 0

\* an order whose type is MARKET and whose price is not null
C12_IsPricedMarket(order) ==
    /\ order.ordertype \in {"MARKET", "OrderType.MARKET"}
    /\ order.price # NoneS

\* C12: an order of type MARKET with a non-null price is refused before
\* submission: no order-placement call is ever made for it.
C12_PricedMarketNeverPlaced ==
    \A p \in AllCallers :
        (call[p].op = "buy_delivery_trade_with_order_params"
         /\ C12_IsPricedMarket(call[p].order)) => call[p].nPlace = 0

\* a login answer that is a non-success or a malformed payload: no answer,
\* a success flag that is not set, no data block, or a data block without token
C13_IsFailedLogin(resp) ==
    \/ resp.kind # "dict"
    \/ resp.status # "True"
    \/ ~resp.data.present
    \/ ~resp.data.has_jwtToken

\* C13 (as claimed): a login answer that is a non-success or a malformed
\* payload makes the operation fail with the "login failed" error; no session
\* is stored and no further provider call is made.
C13_FailedLoginIsLoginFailed ==
    [][\A p \in AllCallers :
          (Answered(p, "generateSession") /\ C13_IsFailedLogin(net[p])
           /\ call'[p] # call[p]) =>
              /\ call'[p].pc = "raised"
              /\ call'[p].err.type = "RuntimeError"
              /\ call'[p].err.text[1] = "login failed: "
              /\ session' = session
              /\ SameCounters(call'[p], call[p])]_vars

\* C14 (as claimed): whenever the answer to a provider call (holdings, symbol
\* search, placement, order detail, order-book listing) carries a
\* session-expiry signal, the step that handles it invalidates the cached
\* session.
C14_ExpiryAlwaysInvalidates ==
    [][\A p \in AllCallers :
          (call[p].pc \in AuthenticatedPcs /\ net[p].kind # "pending"
           /\ is_session_expired(net[p]) /\ call'[p] # call[p]) =>
              session'.access_token = NoToken]_vars

\* C15 (as claimed): with concurrent calls no update of the cache is lost.
\* Tokens are numbered in the order the provider issued them: a cached token
\* is never replaced by one issued before it, and it is cleared only by a
\* call whose expiry signal was the answer to a request carrying that token.
C15_NoLostUpdate ==
    [][/\ (session.access_token # NoToken /\ session'.access_token # NoToken) =>
              session'.access_token >= session.access_token
       /\ \A p \in AllCallers :
              (session.access_token # NoToken /\ session'.access_token = NoToken
               /\ call'[p] # call[p]) =>
                  call[p].smart.access_token = session.access_token]_vars

\* a request whose only populated block is the market block, with a valid
\* product id and side
C16_IsMarketOnly(params) ==
    /\ StrLen(params.product_id) >= 3 /\ params.side \in {"BUY", "SELL"}
    /\ params.order_configuration.market_market_ioc # NoBlock
    /\ params.order_configuration.limit_limit_gtc = NoBlock
    /\ params.order_configuration.limit_limit_gtd = NoBlock

\* exactly one of the two sizes is set, and it is positive
C16_ExactlyOnePositive(cfg) ==
    \/ ~cfg.base_size.none /\ cfg.quote_size.none /\ cfg.base_size.value > 0
    \/ cfg.base_size.none /\ ~cfg.quote_size.none /\ cfg.quote_size.value > 0

\* C16: the market-immediate-or-cancel block validates exactly when exactly
\* one of base_size and quote_size is set (and positive): a request whose only
\* block is a market block passes validation in that case and is refused
\* with a validation error when both or neither are set.
C16_ExactlyOneSize ==
    [][\A p \in AllCallers :
          (call[p].pc = "validate" /\ call[p].op = "execute_crypto_trade"
           /\ C16_IsMarketOnly(call[p].args) /\ call'[p] # call[p]) =>
              IF C16_ExactlyOnePositive(call[p].args.order_configuration.market_market_ioc)
              THEN call'[p].pc = "tool"
              ELSE /\ call'[p].pc = "raised"
                   /\ call'[p].err.type = "ValidationError"]_vars

\* C16 witness: a market block with both sizes set has been refused
C16_Witness ==
    \E p \in AllCallers :
        /\ call[p].pc = "raised"
        /\ call[p].err.type = "ValidationError"
        /\ call[p].args.order_configuration.market_market_ioc =
               MarketIOC(Dec(1), Dec(5))

\* the blocks of an order configuration that are populated
C17_Populated(oc) ==
    { k \in {"market_market_ioc", "limit_limit_gtc", "limit_limit_gtd"} : oc[k] # NoBlock }

\* a request with a valid product id and side whose populated blocks are each
\* valid on their own
C17_BlocksValid(params) ==
    /\ StrLen(params.product_id) >= 3 /\ params.side \in {"BUY", "SELL"}
    /\ params.order_configuration.market_market_ioc # NoBlock =>
           C16_ExactlyOnePositive(params.order_configuration.market_market_ioc)
    /\ \A k \in {"limit_limit_gtc", "limit_limit_gtd"} :
           params.order_configuration[k] # NoBlock =>
               /\ params.order_configuration[k].base_size.value > 0
               /\ params.order_configuration[k].limit_price.value > 0

\* C17: an order configuration validates exactly when exactly one of its three
\* blocks is populated; every payload execute_crypto_trade builds has exactly
\* one configuration key, the key of the populated block, and the operation
\* never raises "Invalid order configuration".
C17_ExactlyOneBlock ==
    [][/\ \A p \in AllCallers :
             (call[p].pc = "validate" /\ call[p].op = "execute_crypto_trade"
              /\ C17_BlocksValid(call[p].args) /\ call'[p] # call[p]) =>
                 IF Cardinality(C17_Populated(call[p].args.order_configuration)) = 1
                 THEN call'[p].pc = "tool"
                 ELSE call'[p].pc = "raised" /\ call'[p].err.type = "ValidationError"
       /\ \A i \in DOMAIN built' :
             /\ Cardinality(DOMAIN built'[i].payload.order_configuration) = 1
             /\ DOMAIN built'[i].payload.order_configuration =
                    C17_Populated(built'[i].params.order_configuration)
       /\ \A p \in AllCallers :
             /\ call'[p].err # RuntimeError(<<"Invalid order configuration">>)
             /\ (call[p].pc = "execute" /\ call'[p] # call[p]) =>
                    /\ call'[p].pc \in {"done", "create_order"}
                    /\ built' = Append(built, [args |-> call[p].args,
                                               params |-> call[p].params,
                                               payload |-> call'[p].payload,
                                               sent |-> call'[p].pc = "create_order"])]_vars

\* C17 witness: a dry run of a good-till-date order returned a payload whose
\* only configuration key is limit_limit_gtd
C17_Witness ==
    \E p \in AllCallers :
        /\ call[p].pc = "done"
        /\ call[p].op = "execute_crypto_trade"
        /\ call[p].params.order_configuration.limit_limit_gtd # NoBlock
        /\ call[p].result.kind = "dict"
        /\ DOMAIN call[p].result.payload.order_configuration = {"limit_limit_gtd"}

\* a payload without its client_order_id
C18_Body(payload) == [payload EXCEPT !.client_order_id = << >>]

\* str() of a size or price: of the Decimal the validated request holds, or
\* of the float the tool has put in its place
C18_Str(d) == IF d.float THEN ToString(d.value) \o ".0" ELSE ToString(d.value)

\* the payload the request params is to carry under the key client_order_id
C18_Expected(params, client_order_id) ==
    [product_id |-> params.product_id, side |-> params.side,
     order_configuration |->
        LET oc == params.order_configuration IN
        CASE oc.market_market_ioc # NoBlock ->
                "market_market_ioc" :>
                    (IF oc.market_market_ioc.base_size.none
                     THEN "quote_size" :> C18_Str(oc.market_market_ioc.quote_size)
                     ELSE "base_size" :> C18_Str(oc.market_market_ioc.base_size))
          [] oc.limit_limit_gtc # NoBlock ->
                "limit_limit_gtc" :>
                    [base_size |-> ToString(oc.limit_limit_gtc.base_size.value),
                     limit_price |-> ToString(oc.limit_limit_gtc.limit_price.value),
                     post_only |-> oc.limit_limit_gtc.post_only]
          [] OTHER ->
                "limit_limit_gtd" :>
                    [base_size |-> ToString(oc.limit_limit_gtd.base_size.value),
                     limit_price |-> ToString(oc.limit_limit_gtd.limit_price.value),
                     end_time |-> <<ToString(oc.limit_limit_gtd.end_time.wall), "Z">>,
                     post_only |-> oc.limit_limit_gtd.post_only],
     client_order_id |-> client_order_id]

\* a request that asks for a dry run: dry_run sent as true, or not sent
C18_IsDryRun(args) == ~args.dry_run.given \/ args.dry_run.value

\* C18: a dry run of execute_crypto_trade, which is what a request gets that
\* sends dry_run true or no dry_run at all (the tool has called it: the frame
\* holds a payload), returns {dry_run: true, payload} with the fully built
\* payload and never calls create_order; a request that is not a dry run
\* hands the payload built the same way to create_order, so a dry run and a
\* submission of the same request carry the same payload (the same
\* client_order_id too when the request supplies one).
C18_DryRunReturnsPayload ==
    /\ \A p \in AllCallers :
          call[p].op = "execute_crypto_trade" =>
             /\ C18_IsDryRun(call[p].args) =>
                   /\ call[p].nCreate = 0
                   /\ call[p].pc # "create_order"
                   /\ (call[p].pc = "done" /\ call[p].payload # NoPayload) =>
                         /\ call[p].result.kind = "dict"
                         /\ call[p].result.dry_run
                         /\ call[p].result.payload =
                               C18_Expected(call[p].params,
                                            call[p].result.payload.client_order_id)
                         /\ call[p].result.payload = Last(built).payload
             /\ call[p].pc = "create_order" =>
                   /\ call[p].args.dry_run = Given(FALSE)
                   /\ call[p].nCreate = 1
                   /\ call[p].payload =
                         C18_Expected(call[p].params, call[p].payload.client_order_id)
    /\ \A i, j \in DOMAIN built :
          ([built[i].params EXCEPT !.dry_run = TRUE] =
           [built[j].params EXCEPT !.dry_run = TRUE]) =>
             /\ C18_Body(built[i].payload) = C18_Body(built[j].payload)
             /\ KeyTruthy(built[i].params.client_order_id) =>
                   built[i].payload = built[j].payload
    /\ \A i \in DOMAIN built : built[i].sent = ~C18_IsDryRun(built[i].args)

\* C18 witness: the same request, with a supplied key, first without dry_run
\* and then with dry_run false: the first was a dry run and returned the
\* payload the second sends
C18_Witness ==
    \E p \in AllCallers :
        /\ Len(built) = 2
        /\ built[1].args.dry_run = NotGiven /\ built[2].args.dry_run = Given(FALSE)
        /\ ~built[1].sent
        /\ built[1].params = [built[2].params EXCEPT !.dry_run = TRUE]
        /\ built[1].payload = built[2].payload
        /\ Awaiting(p, "create_order")
        /\ call[p].payload = built[1].payload

\* C19 (as claimed): the payload's client_order_id is the key the client
\* supplied whenever one is present, and two requests without a supplied key
\* never carry the same client_order_id.
C19_SuppliedKeyHonoured ==
    /\ \A i \in DOMAIN built :
          built[i].params.client_order_id.given =>
             built[i].payload.client_order_id = built[i].params.client_order_id.text
    /\ \A i, j \in DOMAIN built :
          (i # j /\ ~built[i].params.client_order_id.given
           /\ ~built[j].params.client_order_id.given) =>
             built[i].payload.client_order_id # built[j].payload.client_order_id

\* a request that supplies no key, or the empty string as its key
C19_NoUsableKey(params) ==
    ~params.client_order_id.given \/ params.client_order_id.text = << >>

\* the number of the uuid4() call made for the i-th payload built, counting
\* the requests without a usable key
C19_Draw(i) == Cardinality({ k \in 1..i : C19_NoUsableKey(built[k].params) })

\* C19 (amended): the payload's client_order_id is the key the client supplied
\* whenever a non-empty one is present; when the key is null or the empty
\* string the engine makes a uuid4() call of its own for the request and the
\* payload carries "mcp-" followed by the value returned, so two such
\* requests carry the same client_order_id only when uuid4() returned the
\* same value for both; no uuid4() call is made for a request with a key.
C19_NonEmptyKeyHonoured ==
    /\ Len(uuids) = Cardinality({ i \in DOMAIN built : C19_NoUsableKey(built[i].params) })
    /\ \A i \in DOMAIN built :
          IF C19_NoUsableKey(built[i].params)
          THEN built[i].payload.client_order_id = <<"mcp-", uuids[C19_Draw(i)]>>
          ELSE built[i].payload.client_order_id = built[i].params.client_order_id.text
    /\ \A i, j \in DOMAIN built :
          (C19_NoUsableKey(built[i].params) /\ C19_NoUsableKey(built[j].params)) =>
             (built[i].payload.client_order_id = built[j].payload.client_order_id
                 <=> uuids[C19_Draw(i)] = uuids[C19_Draw(j)])

\* C19 witness: a request with the empty string as key and a request without
\* key carry the keys generated from their two uuid4() values
C19_Witness ==
    /\ Len(built) = 2
    /\ built[1].params.client_order_id = Key(<< >>)
    /\ built[2].params.client_order_id = NoKey
    /\ uuids = <<"u2", "u1">>
    /\ built[1].payload.client_order_id = <<"mcp-", "u2">>
    /\ built[2].payload.client_order_id = <<"mcp-", "u1">>

\* the arguments the secret lookup is to be called with
C20_LookupArgs(tool) ==
    [user_id |-> tool.auth_headers.user_id, scopes |-> tool.auth_headers.scopes]

\* the two tool functions the statement is about, which call get_holdings
C20_CallsGetHoldings(fn) == fn \in {"get_portfolio_holdings", "get_portfolio_holdings_tool"}

\* what the tool holds in a state: the lookup was called at most once, with
\* the user_id and scopes of auth_headers; get_holdings was called at most
\* once, with the secret the lookup returned, and only after the lookup; and
\* a tool that has returned hands back what get_holdings returned.  The
\* function of portfolio.py makes the same lookup and no get_holdings call.
C20_Calls(p) ==
    LET tool == call[p].tool IN
    /\ tool.pc \in {"idle", "get_state"} =>
           tool.secret_calls = << >> /\ tool.holdings_calls = << >>
    /\ tool.pc \in {"secret", "get_holdings", "generateSession", "holding", "done"} =>
           tool.secret_calls = <<C20_LookupArgs(tool)>>
    /\ ~C20_CallsGetHoldings(tool.fn) => tool.holdings_calls = << >>
    /\ tool.pc = "raised" => tool.secret_calls \in {<< >>, <<C20_LookupArgs(tool)>>}
    /\ tool.pc = "secret" => tool.holdings_calls = << >>
    /\ tool.holdings_calls # << >> =>
           /\ tool.holdings_calls = <<tool.secret>>
           /\ call[p].op = "get_holdings" /\ call[p].id = tool.secret
    /\ (C20_CallsGetHoldings(tool.fn) /\ tool.pc \in {"get_holdings", "done"}) =>
           tool.holdings_calls # << >>
    /\ (C20_CallsGetHoldings(tool.fn) /\ tool.pc = "done") =>
           /\ call[p].pc = "done"
           /\ tool.result = call[p].result.resp
    /\ tool.pc = "done" =>
           ~(tool.result.kind = "dict" /\ tool.result.status = "False")

\* C20: the get_portfolio_holdings tool calls the secret lookup exactly once,
\* with the user_id and scopes of the context's auth_headers, passes the
\* secret it got to get_holdings (once), returns the response of get_holdings
\* unchanged when it is not a dict with status False, and raises RuntimeError
\* "holding() failed: <message>" when it is; what get_holdings raises leaves
\* the tool unchanged, so that a holding() answer of the provider with status
\* False (and no expiry signal) ends the tool call with that RuntimeError.
\* This is the tool of portfolio_tools.py and of angel_one_tools.py; the
\* function of portfolio.py calls no get_holdings, and treats the provider's
\* holding() answer the same way: returned unchanged, or refused with
\* "holding() failed: <message>" when its status is False.
C20_ToolContract ==
    [][\A p \in AllCallers :
          /\ C20_Calls(p)'
          /\ (call[p].tool.pc = "holding" /\ call'[p].tool.pc # "holding") =>
                IF net[p].kind = "dict" /\ net[p].status = "False"
                THEN /\ call'[p].tool.pc = "raised"
                     /\ call'[p].tool.err =
                           RuntimeError(<<"holding() failed: ">> \o
                                        (IF net[p].message = MsgNone
                                         THEN <<"Unknown error">>
                                         ELSE net[p].message))
                ELSE /\ call'[p].tool.pc = "done"
                     /\ call'[p].tool.result = net[p]
          /\ (call[p].tool.pc = "get_holdings" /\ call'[p].tool.pc # "get_holdings") =>
                IF call[p].pc = "raised"
                THEN call'[p].tool.pc = "raised" /\ call'[p].tool.err = call[p].err
                ELSE IF call[p].result.resp.kind = "dict"
                        /\ call[p].result.resp.status = "False"
                THEN /\ call'[p].tool.pc = "raised"
                     /\ call'[p].tool.err =
                           RuntimeError(<<"holding() failed: ">> \o
                                        (IF call[p].result.resp.message = MsgNone
                                         THEN <<"Unknown error">>
                                         ELSE call[p].result.resp.message))
                ELSE /\ call'[p].tool.pc = "done"
                     /\ call'[p].tool.result = call[p].result.resp
          /\ (call[p].tool.pc = "get_holdings" /\ Answered(p, "holding")
              /\ net[p].kind = "dict" /\ net[p].status = "False"
              /\ ~is_session_expired(net[p]) /\ call'[p] # call[p]) =>
                /\ call'[p].pc = "raised"
                /\ call'[p].err = RuntimeError(<<"holding() failed: ">> \o net[p].message)
                /\ call'[p].tool = call[p].tool]_vars

\* C20 witness: get_portfolio_holdings looked up the secret of user-err with
\* the scopes of its auth_headers, called get_holdings with it, the provider
\* answered holding() with status False, and the tool call has raised
\* "holding() failed: <message>"
C20_Witness ==
    \E p \in AllCallers :
        /\ call[p].tool.fn = "get_portfolio_holdings"
        /\ call[p].tool.pc = "raised"
        /\ call[p].tool.auth_headers = AuthHeaders("user-err", <<"read">>)
        /\ call[p].tool.secret_calls = <<[user_id |-> "user-err", scopes |-> <<"read">>]>>
        /\ call[p].tool.holdings_calls = <<"B">>
        /\ call[p].nHolding = 1
        /\ call[p].tool.err = RuntimeError(<<"holding() failed: ">> \o MsgRejected)

\* the pcs at which a status poll of the reconciler is in flight
PollPcs == {"orderDetails", "orderBook", "sleep"}

\* C21: within one order submission the provider calls come in the order
\* authenticate, resolve, submit, reconcile.  A symbol search is issued only
\* by the step that found the cached session valid or stored the login, and
\* carries the cached token; a placement is issued only once the instrument
\* token is known (resolved by the search just handled, or supplied with the
\* order) and is the one in the payload; the first status poll is issued only
\* by the step that handled a placement answer the provider accepted; and a
\* retry restarts with the argument checks and the session check, the cache
\* being invalid, so that the login comes first again.
C21_StepsInOrder ==
    [][\A p \in AllCallers :
          (call[p].op \in SubmitOps /\ call'[p] # call[p]) =>
              /\ call[p].pc = "validate" => call'[p].pc \in {"ensure", "raised"}
              /\ call[p].pc = "ensure" =>
                    call'[p].pc \in {"generateSession", "connect"}
              /\ call[p].pc = "connect" =>
                    call'[p].pc \in {"searchScrip", "placeOrder"}
              /\ call'[p].nLogin > call[p].nLogin => call[p].pc = "ensure"
              /\ call'[p].nSearch > call[p].nSearch =>
                    /\ call[p].pc \in {"connect", "login_time"}
                    /\ call'[p].pc = "searchScrip"
                    /\ call'[p].smart.access_token # NoToken
                    /\ call'[p].smart.access_token = session'.access_token
                    /\ session'.login_time # NoTime
              /\ call'[p].nPlace > call[p].nPlace =>
                    /\ call'[p].pc = "placeOrder"
                    /\ Truthy(call'[p].orderparams.symboltoken)
                    /\ call'[p].smart.access_token # NoToken
                    /\ \/ call[p].pc = "searchScrip"
                       \/ /\ call[p].pc \in {"connect", "login_time"}
                          /\ call[p].op = "buy_delivery_trade_with_order_params"
                          /\ call'[p].orderparams.symboltoken = call[p].order.symboltoken
              /\ (call'[p].pc \in PollPcs /\ call[p].pc \notin PollPcs) =>
                    /\ call[p].pc = "placeOrder"
                    /\ call[p].placed # << >>
                    /\ Last(call[p].placed).intent = "accept"
              /\ (call'[p].nDetail > call[p].nDetail \/ call'[p].nBook > call[p].nBook) =>
                    call[p].pc \in PollPcs \cup {"placeOrder"}
              /\ call'[p].depth > call[p].depth =>
                    /\ call[p].pc \in {"searchScrip", "placeOrder"}
                    /\ call'[p].pc = "validate"
                    /\ \A t \in SampleTimes : ~session_valid(session', t)]_vars

\* C21 witness: a retried submission has authenticated, resolved and submitted
\* twice and is polling the status of the accepted second placement
C21_Witness ==
    \E p \in AllCallers :
        /\ call[p].op \in SubmitOps
        /\ call[p].pc \in PollPcs
        /\ call[p].depth = 1
        /\ call[p].nLogin = 2 /\ call[p].nSearch = 2 /\ call[p].nPlace = 2
        /\ Intents(call[p].placed) = <<"expire", "accept">>

\* the step of caller p is an expiry-triggered retry
C22_IsRetry(p) == call'[p].depth > call[p].depth

\* C22: on every expiry-triggered retry the old session is invalidated before
\* the operation is attempted again.  The step that starts the retry leaves
\* the cache without token, invalid at every instant; with a single caller
\* the session check of the retry then always requests a login, the token
\* the retry works with is the one that login returned, and no request of the
\* operation ever carries a token that produced an expiry signal before.
C22_RetryAfterInvalidation ==
    [][\A p \in AllCallers :
          call'[p] # call[p] =>
              /\ C22_IsRetry(p) =>
                    /\ session'.access_token = NoToken
                    /\ \A t \in SampleTimes : ~session_valid(session', t)
                    /\ call'[p].pc \in {"validate", "ensure"}
                    /\ call[p].smart.access_token \in call'[p].expired
                    /\ call'[p].nLogin = call[p].nLogin
              /\ (call[p].depth > 0 /\ call[p].pc = "ensure") =>
                    /\ call'[p].pc = "generateSession"
                    /\ call'[p].nLogin = call[p].nLogin + 1
                    /\ call'[p].smart.access_token = NoToken
              /\ (call[p].depth > 0 /\ call[p].pc = "generateSession"
                  /\ call'[p].pc = "datetime_now") =>
                    /\ call'[p].smart.access_token = net[p].data.jwtToken
                    /\ call'[p].smart.access_token \notin call[p].expired
              /\ (call'[p].pc \in AuthenticatedPcs /\ call'[p].pc # call[p].pc) =>
                    call'[p].smart.access_token \notin call'[p].expired]_vars

\* C22 witness: after an expiry signal on token 1 the retry has logged in
\* again and its request carries token 2
C22_Witness ==
    \E p \in AllCallers :
        /\ call[p].depth = 1
        /\ call[p].pc \in {"holding", "searchScrip", "placeOrder"}
        /\ call[p].expired = {1}
        /\ call[p].smart.access_token = 2
        /\ session.access_token = 2

\* a valid cached session exists: a token and an acquisition time are stored
\* and the clock is before the first 05:00 boundary after the acquisition
C23_CacheIsValid ==
    /\ session.access_token # NoToken
    /\ session.login_time # NoTime
    /\ now < FirstResetAfter(session.login_time)

\* the provider calls other than the login the operation has made
C23_Requests(frame) ==
    frame.nHolding + frame.nSearch + frame.nPlace + frame.nDetail + frame.nBook

\* C23: at the start of each operation, a valid cached session means that no
\* login call is made and the cached token is used for the provider calls;
\* without one (never logged in, invalidated, or past the reset boundary) a
\* login call is made, and exactly one login precedes the first other
\* provider call of the operation.
C23_LoginOnlyWithoutValidCache ==
    [][\A p \in AllCallers :
          call'[p] # call[p] =>
              /\ call[p].pc = "ensure" =>
                    IF C23_CacheIsValid
                    THEN /\ call'[p].nLogin = call[p].nLogin
                         /\ call'[p].pc = "connect"
                         /\ C23_Requests(call'[p]) = C23_Requests(call[p])
                         /\ session' = session
                    ELSE /\ call'[p].pc = "generateSession"
                         /\ call'[p].nLogin = call[p].nLogin + 1
                         /\ C23_Requests(call'[p]) = C23_Requests(call[p])
                         /\ call'[p].smart.access_token = NoToken
              /\ call[p].pc = "connect" =>
                    /\ C23_CacheIsValid
                    /\ call'[p].nLogin = call[p].nLogin
                    /\ call'[p].pc \in {"holding", "searchScrip", "placeOrder"}
                    /\ C23_Requests(call'[p]) = C23_Requests(call[p]) + 1
                    /\ call'[p].smart.access_token = session.access_token
                    /\ session' = session
              /\ (call[p].depth = 0 /\ call[p].pc = "ensure") =>
                    call'[p].cache0 = C23_CacheIsValid
              /\ (call[p].depth = 0 /\ C23_Requests(call[p]) = 0
                  /\ C23_Requests(call'[p]) = 1) =>
                    /\ call'[p].nLogin = IF call'[p].cache0 THEN 0 ELSE 1
                    /\ call'[p].smart.access_token = session'.access_token
                    /\ session'.access_token # NoToken]_vars

\* C23 witness: an operation that found a valid cached session has made its
\* first request with the cached token and without any login, after an
\* earlier operation had logged in
C23_Witness ==
    \E p \in AllCallers :
        /\ call[p].pc \in {"holding", "searchScrip", "placeOrder"}
        /\ call[p].depth = 0
        /\ call[p].cache0
        /\ call[p].nLogin = 0
        /\ call[p].smart.access_token = 1
        /\ issued # << >>

\* the login answer caller p is about to handle is a successful authentication
C24_IsSuccessfulLogin(p) ==
    /\ Answered(p, "generateSession")
    /\ net[p].kind = "dict" /\ net[p].status = "True"
    /\ net[p].data.present /\ net[p].data.has_jwtToken

\* C24: a successful authentication overwrites the cache with exactly the
\* token that login returned and the time the clock shows when it is stored.
\* The token is written by the step that handles the login answer; the next
\* step of the same call reads the clock and the one after it stores the
\* reading as the acquisition time; nothing else
\* writes a token or a time into the cache, and the session stored this way
\* is valid at once.
C24_LoginOverwritesCache ==
    [][\A p \in AllCallers :
          call'[p] # call[p] =>
              /\ C24_IsSuccessfulLogin(p) =>
                    /\ session'.access_token = net[p].data.jwtToken
                    /\ call'[p].smart.access_token = net[p].data.jwtToken
                    /\ call'[p].pc = "datetime_now"
              /\ call[p].pc = "datetime_now" =>
                    /\ call'[p] = [call[p] EXCEPT !.pc = "login_time", !.clock = now]
                    /\ session' = session /\ now' = now
              /\ call[p].pc = "login_time" =>
                    /\ call[p].clock = now
                    /\ session' = [access_token |-> call[p].smart.access_token,
                                   login_time |-> now]
                    /\ session'.access_token # NoToken
                    /\ now' = now
                    /\ now' < FirstResetAfter(session'.login_time)
                    /\ session_valid(session', now')
                    /\ call'[p].pc \in {"holding", "searchScrip", "placeOrder"}
              /\ session'.login_time # session.login_time => call[p].pc = "login_time"
              /\ (session'.access_token # session.access_token
                  /\ session'.access_token # NoToken) => C24_IsSuccessfulLogin(p)]_vars

\* C24 witness: a second authentication has replaced a session acquired on
\* day 0 by the token of login 2 and the acquisition time 05:00:00 of day 1
C24_Witness ==
    \E p \in AllCallers :
        /\ call[p].pc \in {"holding", "searchScrip", "placeOrder"}
        /\ call[p].depth = 0 /\ ~call[p].cache0 /\ call[p].nLogin = 1
        /\ session = [access_token |-> 2, login_time |-> FiveAM(1)]
        /\ now = FiveAM(1)

\* the answer carries a session-expiry signal: code 401 or "AG8001", or a
\* message that mentions "Session"
C25_SignalsExpiry(resp) ==
    /\ resp.kind = "dict"
    /\ \/ resp.code \in {"int:401", "str:AG8001"}
       \/ \E i \in DOMAIN resp.message : resp.message[i] = "Session"

\* C25: a symbol search answer that signals session expiry invalidates the
\* stale session and restarts the operation without raising: the expiry is
\* not reported as a resolution failure.  The search is issued again only
\* after a new login (single caller), and never with a token that produced
\* an expiry signal.
C25_SearchExpiryReauthenticates ==
    [][\A p \in AllCallers :
          call'[p] # call[p] =>
              /\ (Answered(p, "searchScrip") /\ C25_SignalsExpiry(net[p])) =>
                    /\ session'.access_token = NoToken
                    /\ call'[p].pc = "validate"
                    /\ call'[p].err = NoError
                    /\ call'[p].depth = call[p].depth + 1
                    /\ call'[p].nSearch = call[p].nSearch
                    /\ call'[p].expired = call[p].expired \cup {call[p].smart.access_token}
              /\ (call'[p].nSearch > call[p].nSearch /\ call[p].depth > 0) =>
                    /\ call[p].pc = "login_time"
                    /\ call'[p].smart.access_token \notin call'[p].expired
                    /\ call'[p].smart.access_token = session'.access_token]_vars

\* C25 witness: the search was answered with an expiry signal for token 1 and
\* is in flight again with the token of the login made since
C25_Witness ==
    \E p \in AllCallers :
        /\ Awaiting(p, "searchScrip")
        /\ call[p].depth = 1
        /\ call[p].nSearch = 2 /\ call[p].nPlace = 0
        /\ call[p].expired = {1}
        /\ call[p].smart.access_token = 2

\* C26 (as claimed): get_holdings forces a re-login at most once per call: a
\* second expiry signal from holding() ends the call with an error, so the
\* call never retries twice and never logs in a third time.
C26_HoldingsRetriesOnce ==
    \A p \in AllCallers :
        call[p].op = "get_holdings" =>
            /\ call[p].depth <= 1
            /\ Cardinality(call[p].expired) >= 2 => call[p].pc = "raised"

\* the caller supplied the instrument token with the order
C27_TokenSupplied(order) == order.symboltoken \notin {NoneS, ""}

\* C27: when the order of buy_delivery_trade_with_order_params carries the
\* instrument token, the operation never calls the symbol search and the
\* payload of its placement carries the supplied token; the search is called
\* only for an order whose token is unset (null or empty), and the payload
\* then carries the token of an entry of the listing.
C27_SuppliedTokenSkipsSearch ==
    [][\A p \in AllCallers :
          (call[p].op = "buy_delivery_trade_with_order_params"
           /\ call'[p] # call[p]) =>
              /\ C27_TokenSupplied(call[p].order) =>
                    /\ call'[p].nSearch = 0
                    /\ call'[p].pc # "searchScrip"
                    /\ call'[p].nPlace > call[p].nPlace =>
                          /\ call[p].pc \in {"connect", "login_time"}
                          /\ call'[p].orderparams.symboltoken = call[p].order.symboltoken
              /\ call'[p].nSearch > call[p].nSearch =>
                    /\ ~C27_TokenSupplied(call[p].order)
                    /\ call[p].order # NoOrder
              /\ (~C27_TokenSupplied(call[p].order)
                  /\ call'[p].nPlace > call[p].nPlace) =>
                    /\ Answered(p, "searchScrip")
                    /\ \E i \in DOMAIN net[p].data :
                          call'[p].orderparams.symboltoken = net[p].data[i].symboltoken
              /\ call[p].pc \in PollPcs => call'[p].nSearch = call[p].nSearch]_vars

\* C27 witness: the placement of an order given with token "t9" is in flight,
\* no search having been made
C27_Witness ==
    \E p \in AllCallers :
        /\ Awaiting(p, "placeOrder")
        /\ call[p].op = "buy_delivery_trade_with_order_params"
        /\ call[p].order.symboltoken = "t9"
        /\ call[p].orderparams.symboltoken = "t9"
        /\ call[p].nSearch = 0 /\ call[p].nPlace = 1

\* the exchange an order asks for: the string, or the value of the member
C28_RequestedExchange(exchange) ==
    IF exchange = "Exchange.NSE" THEN "NSE" ELSE exchange

\* the preferred predicate of the operation of frame, applied to a listed
\* scrip: the entry is of the requested exchange and its symbol ends with
\* "-EQ", or is the symbol the caller supplied
C28_Preferred(frame, item) ==
    IF frame.op = "buy_delivery_trade"
    THEN item.exchange = "NSE" /\ item.tradingsymbol.series = "-EQ"
    ELSE item.exchange = C28_RequestedExchange(frame.order.exchange)
         /\ item.tradingsymbol = frame.order.tradingsymbol

\* entry i of the listing is the one the tie-breaking rule designates: the
\* first preferred entry, or the first entry when none is preferred
C28_IsDesignated(frame, results, i) ==
    IF \E j \in DOMAIN results : C28_Preferred(frame, results[j])
    THEN /\ C28_Preferred(frame, results[i])
         /\ \A j \in 1..(i - 1) : ~C28_Preferred(frame, results[j])
    ELSE i = 1

\* the frame after the operation went on with the listed scrip item
C28_WentOnWith(before, after, item) ==
    IF before.op = "buy_delivery_trade"
    THEN IF item.tradingsymbol = BlankSym \/ item.symboltoken = ""
         THEN after.pc = "raised"
         ELSE /\ after.pc = "placeOrder"
              /\ after.orderparams.tradingsymbol = item.tradingsymbol
              /\ after.orderparams.symboltoken = item.symboltoken
    ELSE IF item.symboltoken = ""
         THEN after.pc = "raised"
         ELSE /\ after.pc = "placeOrder"
              /\ after.orderparams.tradingsymbol = before.order.tradingsymbol
              /\ after.orderparams.symboltoken = item.symboltoken

\* C28 (as claimed): the instrument chosen from a non-empty successful search listing is
\* the first entry, in the provider's order, that satisfies the preferred
\* predicate of the operation, and the first entry of the listing when none
\* does; exactly one entry is designated, so a listing determines the choice.
C28_FirstPreferredElseFirst ==
    [][\A p \in AllCallers :
          (Answered(p, "searchScrip") /\ net[p].kind = "dict"
           /\ net[p].status = "True" /\ ~C25_SignalsExpiry(net[p])
           /\ net[p].data # << >> /\ call'[p] # call[p]) =>
              /\ \E i \in DOMAIN net[p].data :
                    /\ C28_IsDesignated(call[p], net[p].data, i)
                    /\ C28_WentOnWith(call[p], call'[p], net[p].data[i])
              /\ \A i, j \in DOMAIN net[p].data :
                    (C28_IsDesignated(call[p], net[p].data, i)
                     /\ C28_IsDesignated(call[p], net[p].data, j)) => i = j]_vars

\* the placement answer carried a unique order id
C29_HasUniqueId(frame) == frame.unique_order_id \notin {NoneS, Absent, ""}

\* the detail answer carries a data payload
C29_HasPayload(resp) == resp.kind = "dict" /\ resp.data.kind # "none"

\* the calls made when a request of attempt number frame.attempt is in flight
C29_CallsOfAttempt(frame) ==
    /\ frame.pc = "orderDetails" =>
          /\ C29_HasUniqueId(frame)
          /\ frame.nDetail = frame.attempt + 1
          /\ frame.nBook = frame.attempt
    /\ frame.pc = "orderBook" =>
          /\ frame.nBook = frame.attempt + 1
          /\ frame.nDetail = IF C29_HasUniqueId(frame) THEN frame.attempt + 1 ELSE 0

\* C29: in each reconciliation attempt the detail lookup is made first and
\* only when a unique order id is present; a detail answer carrying a data
\* payload ends the loop at once with that payload, without a listing call
\* in that attempt; the listing is called in an attempt only after the
\* detail lookup of that attempt yielded no result, or was skipped.
C29_DetailBeforeListing ==
    [][\A p \in AllCallers :
          call'[p] # call[p] =>
              /\ C29_CallsOfAttempt(call[p])
              /\ C29_CallsOfAttempt(call'[p])
              /\ call'[p].nDetail > call[p].nDetail =>
                    /\ C29_HasUniqueId(call[p])
                    /\ call'[p].pc = "orderDetails"
                    /\ call'[p].nBook = call[p].nBook
              /\ (Answered(p, "orderDetails") /\ C29_HasPayload(net[p])) =>
                    /\ call'[p].pc = "done"
                    /\ call'[p].result.order_status_details = net[p].data
                    /\ call'[p].nBook = call[p].nBook
                    /\ call'[p].nDetail = call[p].nDetail
                    /\ call'[p].nSleep = call[p].nSleep
              /\ call'[p].nBook > call[p].nBook =>
                    /\ call'[p].pc = "orderBook"
                    /\ IF C29_HasUniqueId(call[p])
                       THEN Answered(p, "orderDetails") /\ ~C29_HasPayload(net[p])
                       ELSE call'[p].nDetail = 0]_vars

\* C29 witness: the detail answer of the second attempt carried a payload and
\* ended the loop; the listing was called in the first attempt only
C29_Witness ==
    \E p \in AllCallers :
        /\ call[p].pc = "done"
        /\ call[p].nDetail = 2 /\ call[p].nBook = 1 /\ call[p].nSleep = 1
        /\ call[p].result.order_status_details.kind = "dict"
        /\ call[p].result.order_status = "complete"

\* the listing of a successful order-book answer holds an entry whose
\* uniqueorderid is the unique id of the placement
C30_ListsUniqueId(resp, unique_order_id) ==
    /\ resp.kind = "dict" /\ resp.status = "True" /\ resp.data.kind = "list"
    /\ unique_order_id \notin {NoneS, Absent, ""}
    /\ \E i \in DOMAIN resp.data.items :
          /\ resp.data.items[i].kind = "dict"
          /\ resp.data.items[i].uniqueorderid = unique_order_id

\* C30 (as claimed): the order-book scan matches on the unique order id and
\* uses the order id only as a fallback: when the listing holds an entry with
\* the placement's unique id, the scan ends the loop with an entry whose
\* uniqueorderid matches, even if an earlier entry has the same orderid.
C30_UniqueIdBeforeOrderId ==
    [][\A p \in AllCallers :
          (Answered(p, "orderBook")
           /\ C30_ListsUniqueId(net[p], call[p].unique_order_id)
           /\ call'[p] # call[p]) =>
              /\ call'[p].pc = "done"
              /\ call'[p].result.order_status_details.uniqueorderid =
                     call[p].unique_order_id]_vars

\* a transport error of a polling call: the call raised, or answered with an
\* error response (success flag False)
C31_IsTransportError(resp) ==
    \/ resp.kind = "raise"
    \/ resp.kind = "dict" /\ resp.status = "False"

\* C31 (as claimed): a transport error from the detail lookup or from the
\* order-book listing never ends the reconciliation loop: the error is
\* recorded as the last error, the listing of the same attempt is still
\* called after a failed detail lookup, and after a failed listing polling
\* goes on with the next attempt unless the attempt budget is exhausted.
C31_TransportErrorIsRecorded ==
    [][\A p \in AllCallers :
          (call[p].pc \in PollPcs /\ net[p].kind # "pending"
           /\ C31_IsTransportError(net[p]) /\ call'[p] # call[p]) =>
              /\ ~call'[p].rec_raised
              /\ call'[p].last_error_message = net[p].message
              /\ call[p].pc = "orderDetails" =>
                    /\ call'[p].pc = "orderBook"
                    /\ call'[p].attempt = call[p].attempt
              /\ call[p].pc = "orderBook" =>
                    /\ call'[p].pc = "sleep"
                    /\ call'[p].attempt = call[p].attempt
                    /\ call[p].attempt < max_attempts]_vars

\* C32 (as claimed): the order status record becomes terminal only once its
\* status is non-null or the attempt budget is exhausted: the reconciler
\* never returns a null status before it has made max_attempts attempts.
C32_NullStatusOnlyWhenExhausted ==
    \A p \in AllCallers :
        (call[p].pc = "done" /\ ~call[p].rec_raised
         /\ call[p].result.kind = "order"
         /\ call[p].result.order_status = NoneS) =>
            call[p].attempt = max_attempts

\* the calls and sleeps of one reconcile stay within the attempt budget
C33_WithinBudget ==
    \A p \in AllCallers :
        /\ call[p].nDetail <= max_attempts
        /\ call[p].nBook <= max_attempts
        /\ call[p].nSleep <= max_attempts
        /\ call[p].attempt <= max_attempts

\* C33: reconciliation is bounded and always terminates: whatever the
\* provider answers, one reconcile makes at most max_attempts detail lookups,
\* at most max_attempts order-book listings and at most max_attempts sleeps,
\* and eventually no polling call is outstanding.
C33_BoundedAndTerminates ==
    /\ []C33_WithinBudget
    /\ <>(\A p \in AllCallers : call[p].pc \notin PollPcs)

\* C33 witness: a reconcile that used its whole budget: five detail lookups,
\* five listings, five sleeps
C33_Witness ==
    \E p \in AllCallers :
        /\ call[p].pc = "done"
        /\ call[p].nDetail = max_attempts
        /\ call[p].nBook = max_attempts
        /\ call[p].nSleep = max_attempts

\* the order types that are MARKET: the string and the member of OrderType
C34_IsMarket(ordertype) == ordertype \in {"MARKET", "OrderType.MARKET"}

\* C34 (as claimed): every order payload handed to the provider has a null
\* price exactly when its order type is MARKET, and a whole quantity >= 1.
C34_PayloadInvariant ==
    \A p \in AllCallers :
        call[p].pc = "placeOrder" =>
            /\ (call[p].orderparams.price = NoneS)
                   <=> C34_IsMarket(call[p].orderparams.ordertype)
            /\ call[p].orderparams.quantity >= 1

\* a login answer with a non-success status: no answer at all, or a dict
\* whose success flag is not set
C35_IsRejectedLogin(resp) == resp.kind # "dict" \/ resp.status # "True"

\* C35 (as claimed): a failed login leaves the session cache exactly as it
\* was before the call, token and acquisition time, and the operation raises
\* without a further provider call.
C35_CacheAsBeforeCall ==
    [][\A p \in AllCallers :
          (Answered(p, "generateSession") /\ C35_IsRejectedLogin(net[p])
           /\ call'[p] # call[p]) =>
              /\ session' = call[p].session0
              /\ call'[p].pc = "raised"
              /\ SameCounters(call'[p], call[p])
              /\ call'[p].nHolding = call[p].nHolding]_vars

\* C35 (amended): a failed login leaves the session cache exactly as it was
\* when the login was attempted (token and acquisition time unchanged) and is
\* not retried: the step that handles it raises "login failed" without a
\* provider call; in a call that was not retried nothing before the login
\* touches the cache, which is then the cache as it was before the call,
\* while a login made in an expiry retry finds the token already cleared; and
\* an operation that has raised takes no step other than handing the error to
\* its caller.
C35_FailedLoginLeavesCache ==
    [][\A p \in AllCallers :
          call'[p] # call[p] =>
              /\ (Answered(p, "generateSession") /\ C35_IsRejectedLogin(net[p])) =>
                    /\ session' = session
                    /\ call[p].depth = 0 => session' = call[p].session0
                    /\ call[p].depth > 0 => session'.access_token = NoToken
                    /\ call'[p].pc = "raised"
                    /\ call'[p].err.type = "RuntimeError"
                    /\ call'[p].err.text[1] = "login failed: "
                    /\ SameCounters(call'[p], call[p])
                    /\ call'[p].nHolding = call[p].nHolding
              /\ (call[p].depth = 0 /\ call[p].pc \in {"validate", "ensure", "connect"}) =>
                    session' = session
              /\ (Awaiting(p, "generateSession") /\ call'[p].pc = "generateSession") =>
                    session' = session
              /\ call[p].pc = "raised" =>
                    /\ call'[p] = Idle
                    /\ session' = session]_vars

\* C35 witness: the operation found the session of login 1 in the cache, a
\* request was answered with an expiry signal, and the login of the retry was
\* refused: the cache holds the acquisition time it had, with the token
\* cleared by the invalidation
C35_Witness ==
    \E p \in AllCallers :
        /\ call[p].pc = "raised"
        /\ call[p].depth = 1 /\ call[p].nLogin = 1
        /\ call[p].err = RuntimeError(<<"login failed: ">> \o MsgInvalidTotp)
        /\ call[p].session0.access_token = 1
        /\ session = [call[p].session0 EXCEPT !.access_token = NoToken]

\* C36: in one submit call the placement request is issued again only after
\* the previous placement answer was classified as session-expired.  The
\* classification looks at the code and the message only, whatever the
\* success flag says; an answer so classified is never reconciled and its
\* order id is never returned; an answer not so classified causes no retry;
\* and once an answer is treated as accepted no placement follows, so that at
\* most one placement answer per call is treated as accepted.
C36_ReplacementOnlyAfterExpiry ==
    [][\A p \in AllCallers :
          (call[p].op \in SubmitOps /\ call'[p] # call[p]) =>
              /\ (Answered(p, "placeOrder") /\ C25_SignalsExpiry(net[p])) =>
                    /\ call'[p].pc = "validate"
                    /\ call'[p].depth = call[p].depth + 1
                    /\ call'[p].result = NoResult
                    /\ call'[p].order_resp = Idle.order_resp
                    /\ call'[p].nDetail = call[p].nDetail
                    /\ call'[p].nBook = call[p].nBook
                    /\ session'.access_token = NoToken
              /\ (Answered(p, "placeOrder") /\ ~C25_SignalsExpiry(net[p])) =>
                    /\ call'[p].depth = call[p].depth
                    /\ call'[p].pc \in PollPcs \cup {"raised"}
                    /\ call'[p].pc \in PollPcs =>
                          call'[p].order_resp.orderid = net[p].data.orderid
              /\ call'[p].nPlace <= call'[p].depth + 1
              /\ (call'[p].nPlace > call[p].nPlace /\ call[p].nPlace > 0) =>
                    /\ call[p].depth > 0
                    /\ call[p].nDetail = 0 /\ call[p].nBook = 0
              /\ call[p].pc \in PollPcs =>
                    /\ call'[p].pc \in PollPcs \cup {"done"}
                    /\ call'[p].nPlace = call[p].nPlace
                    /\ call'[p].order_resp = call[p].order_resp
              /\ call'[p].pc = "done" =>
                    /\ call'[p].result.order_id = call[p].order_resp.orderid
                    /\ call'[p].result.order_id = Last(call[p].placed).orderid
                    /\ Last(call[p].placed).intent = "accept"]_vars

\* C36 witness: the first placement answer carried code 401 together with a
\* success flag and the order id 102; the call retried, and returns the order
\* id 101 of the second answer
C36_Witness ==
    \E p \in AllCallers :
        /\ call[p].op \in SubmitOps
        /\ call[p].pc = "done"
        /\ call[p].nPlace = 2
        /\ call[p].placed = <<[intent |-> "expire", orderid |-> "s:102"],
                              [intent |-> "accept", orderid |-> "s:101"]>>
        /\ call[p].result.order_id = "s:101"

\* C37: with a single caller the session is reported valid only if the token
\* and the acquisition time are both set.  An invalidation clears the token
\* and leaves the acquisition time as it was; with the token cleared the
\* session is invalid at every time of the clock, and the token is set again
\* only by the step that handles a successful login answer; the acquisition
\* time is replaced only by the step of a login that follows it.
C37_ValidityAndInvalidation ==
    [][/\ \A t \in SampleTimes :
              session_valid(session, t) =>
                  session.access_token # NoToken /\ session.login_time # NoTime
       /\ session.access_token = NoToken =>
              \A t \in SampleTimes : ~session_valid(session, t)
       /\ (session.access_token # NoToken /\ session'.access_token = NoToken) =>
              /\ session'.login_time = session.login_time
              /\ session'.login_time # NoTime
              /\ \E p \in AllCallers :
                     /\ call[p].pc \in AuthenticatedPcs
                     /\ C25_SignalsExpiry(net[p])
                     /\ call'[p].depth = call[p].depth + 1
       /\ (session.access_token = NoToken /\ session'.access_token # NoToken) =>
              \E p \in AllCallers :
                  /\ Answered(p, "generateSession")
                  /\ net[p].kind = "dict" /\ net[p].status = "True"
                  /\ session'.access_token = net[p].data.jwtToken
                  /\ session'.login_time = session.login_time
                  /\ call'[p].pc = "datetime_now"
       /\ session'.login_time # session.login_time =>
              /\ session'.login_time = now
              /\ session'.access_token = session.access_token
              /\ session.access_token # NoToken
              /\ \E p \in AllCallers : call[p].pc = "login_time"]_vars

\* C37 witness: a retried call is about to log in again after an
\* invalidation: the token is cleared and the acquisition time of the
\* discarded session is still in the cache
C37_Witness ==
    \E p \in AllCallers :
        /\ call[p].depth = 1
        /\ call[p].pc = "generateSession"
        /\ session.access_token = NoToken
        /\ session.login_time # NoTime
        /\ call[p].expired # {}

\* C38 (as claimed): with concurrent callers every reader of the cache
\* observes a token and an acquisition time written by one and the same
\* login.  A login writes the token in one step, reads the clock in the next
\* and writes the time in a third:
\* when it writes the time the cache still holds its token, and no call reads
\* the cache for a validity decision between the two writes of another
\* call's login, so that a token is never judged against the acquisition time
\* of an older session.
C38_PairFromOneLogin ==
    [][\A p \in AllCallers :
          /\ (call[p].pc = "login_time" /\ call'[p] # call[p]) =>
                 call[p].smart.access_token = session.access_token
          /\ (call[p].pc = "ensure" /\ call'[p] # call[p]) =>
                 \A q \in AllCallers \ {p} :
                     ~ /\ call[q].pc \in {"datetime_now", "login_time"}
                       /\ call[q].smart.access_token = session.access_token]_vars

\* C39: the reconciler sleeps once after every attempt that found no match,
\* the last one included, and never after a match: while it polls it has
\* slept once per finished attempt; when it returns without a match it has
\* made max_attempts attempts and slept max_attempts times; when it returns
\* a match found on attempt k it has slept k-1 times, with k <= max_attempts.
C39_SleepsAfterEveryMiss ==
    \A p \in AllCallers :
        /\ call[p].pc \in PollPcs => call[p].nSleep = call[p].attempt
        /\ (call[p].pc = "done" /\ ~call[p].rec_raised) =>
              /\ call[p].nSleep = call[p].attempt
              /\ IF call[p].result.order_status_details = NoItem
                 THEN /\ call[p].attempt = max_attempts
                      /\ call[p].nSleep = max_attempts
                 ELSE /\ call[p].attempt < max_attempts
                      /\ call[p].nSleep \in {call[p].nBook, call[p].nBook - 1}
                      /\ call[p].nDetail \in {0, call[p].nBook, call[p].nBook + 1}

\* C39 witness: the first attempt found nothing and the detail lookup of the
\* second attempt returned the order: one sleep, none after the match
C39_Witness ==
    \E p \in AllCallers :
        /\ call[p].pc = "done"
        /\ ~call[p].rec_raised
        /\ call[p].result.order_status_details # NoItem
        /\ call[p].attempt = 1
        /\ call[p].nDetail = 2 /\ call[p].nBook = 1 /\ call[p].nSleep = 1

\* the inputs the argument check is there to refuse: a blank share name or
\* trading symbol, or a quantity that is not a whole number >= 1
C40_IsWholeShares(tenths) == tenths >= 10 /\ IntOfTenths(tenths) * 10 = tenths

C40_IsInvalidInput(frame) ==
    IF frame.op = "buy_delivery_trade"
    THEN \/ frame.share_name \in {NoneS, "", "   "}
         \/ ~frame.qty.numeric
         \/ ~C40_IsWholeShares(frame.qty.tenths)
    ELSE \/ frame.order.tradingsymbol \in {BlankSym, SpacesSym}
         \/ ~C40_IsWholeShares(frame.order.quantity)

\* C40 (as claimed): an order operation called with a blank name or symbol,
\* or with a quantity that is not a whole number >= 1, does nothing but
\* raise: its only step is the argument check, which raises before any
\* login, search or placement call and leaves the session cache unchanged.
C40_ValidationPrecedesProvider ==
    [][\A p \in AllCallers :
          (call[p].op \in SubmitOps /\ C40_IsInvalidInput(call[p])
           /\ call[p].pc # "raised" /\ call'[p] # call[p]) =>
              /\ call[p].pc = "validate"
              /\ call'[p].pc = "raised"
              /\ call'[p].nLogin = 0 /\ call'[p].nSearch = 0 /\ call'[p].nPlace = 0
              /\ session' = session]_vars

\* a get_portfolio_holdings call of portfolio.py has returned the holdings
\* after a login of its own, and the session cache holds no token
ToolLoginLeavesNoSession ==
    \E p \in AllCallers :
        /\ call[p].tool.fn = "portfolio.get_portfolio_holdings"
        /\ call[p].tool.pc = "done"
        /\ call[p].tool.result.kind = "dict"
        /\ call[p].nLogin = 1
        /\ Len(issued) = 2
        /\ session.access_token = NoToken

====
